---- MODULE Spec2Model ----
(***************************************************************************)
(* A model of the block editor: the client component Home (page list,      *)
(* displayed blocks, optimistic mutations with rollback), the Sidebar, the  *)
(* page and block API route handlers, the flat-file stores and the block   *)
(* validators.                                                             *)
(*                                                                         *)
(* JavaScript values are tagged records [k, s, n]: k is the kind, s the     *)
(* characters of a string (a sequence of one-character strings), n the     *)
(* value of a finite number.  Ids are opaque and only compared, so they    *)
(* are TLA+ strings.                                                       *)
(***************************************************************************)
EXTENDS Integers, Sequences, FiniteSets, TLC

\* ------------------------------------------------------------------------
\* Bounds of the model
\* ------------------------------------------------------------------------

\* Milliseconds Date.now() may advance over.
MaxClock == 2
\* Length of the id lists sent to the legacy reorder route.
MaxIds == 3
\* Persistence calls the client may dispatch in one behaviour.
MaxOps == 2
\* Requests sent to the page API in one behaviour of the server alone.
MaxRequests == 2
\* Persistence calls that may be outstanding at the same time.
MaxInFlight == 2
\* ... and in the specification of the block editor
MaxInFlightBlocks == 1

\* ------------------------------------------------------------------------
\* JavaScript values
\* ------------------------------------------------------------------------

Str(cs) == [k |-> "str", s |-> cs, n |-> 0]
Num(i) == [k |-> "num", s |-> <<>>, n |-> i]
Undef == [k |-> "undefined", s |-> <<>>, n |-> 0]
Null == [k |-> "null", s |-> <<>>, n |-> 0]
Infinity == [k |-> "infinity", s |-> <<>>, n |-> 0]
NaN == [k |-> "nan", s |-> <<>>, n |-> 0]

\* !v for a property value
Falsy(v) ==
    \/ v.k \in {"undefined", "null", "nan"}
    \/ (v.k = "str" /\ v.s = <<>>)
    \/ (v.k = "num" /\ v.n = 0)
\* typeof v === 'string'
IsString(v) == v.k = "str"
\* typeof v === 'number' (Infinity and NaN are numbers)
IsNumber(v) == v.k \in {"num", "infinity", "nan"}
\* isFinite(v) for a number v
IsFinite(v) == v.k = "num"
\* v <= 0 for a number v (NaN compares false with everything)
LeqZero(v) == v.k = "num" /\ v.n <= 0

\* A styles value: an object, an array (which may carry named properties),
\* null, undefined or a string; variant, width and height are what reading
\* the property gives (undefined when it is absent).
Styles(kind, variant, width, height) ==
    [k |-> kind, variant |-> variant, width |-> width, height |-> height]
TextStyles(v) == Styles("object", Str(<<v>>), Undef, Undef)
ImageStyles(w, h) == Styles("object", Undef, Num(w), Num(h))
\* !styles: null, undefined (and the empty string) are falsy
StylesFalsy(st) == st.k \in {"null", "undefined"}
\* typeof styles === 'object' holds for objects, arrays and null
StylesTypeofObject(st) == st.k \in {"object", "array", "null"}
StylesIsArray(st) == st.k = "array"

\* ------------------------------------------------------------------------
\* Strings
\* ------------------------------------------------------------------------

HTTP == <<"h", "t", "t", "p", ":", "/", "/">>
HTTPS == <<"h", "t", "t", "p", "s", ":", "/", "/">>
FTP == <<"f", "t", "p", ":", "/", "/">>
XPNG == <<"x", ".", "p", "n", "g">>

\* String.prototype.startsWith
StartsWith(cs, prefix) ==
    /\ Len(cs) >= Len(prefix)
    /\ SubSeq(cs, 1, Len(prefix)) = prefix

IsSpace(c) == c = " "

RECURSIVE TrimStart(_)
TrimStart(cs) ==
    IF cs # <<>> /\ IsSpace(Head(cs)) THEN TrimStart(Tail(cs)) ELSE cs

RECURSIVE TrimEnd(_)
TrimEnd(cs) ==
    IF cs # <<>> /\ IsSpace(cs[Len(cs)])
    THEN TrimEnd(SubSeq(cs, 1, Len(cs) - 1))
    ELSE cs

\* String.prototype.trim
Trim(cs) == TrimEnd(TrimStart(cs))

\* ------------------------------------------------------------------------
\* Validators
\* ------------------------------------------------------------------------

ValidVariants == {"h1", "h2", "h3", "paragraph"}

\* validVariants.includes(styles.variant)
VariantIncluded(v) == IsString(v) /\ Len(v.s) = 1 /\ v.s[1] \in ValidVariants

\* width/height test shared by both validators:
\* typeof x !== 'number' || !isFinite(x) || x <= 0
BadDimension(x) == ~IsNumber(x) \/ ~IsFinite(x) \/ LeqZero(x)

\* Server-side validator: "ok" stands for the null it returns on success,
\* any other value names the check that failed.
validateBlockInput(body) ==
    IF body.type = "" \/ (body.type # "text" /\ body.type # "image")
    THEN "type"
    ELSE IF ~IsString(body.content)
    THEN "content"
    ELSE IF body.type = "image"
            /\ ~StartsWith(body.content.s, HTTP)
            /\ ~StartsWith(body.content.s, HTTPS)
    THEN "url"
    ELSE IF StylesFalsy(body.styles)
            \/ ~StylesTypeofObject(body.styles)
            \/ StylesIsArray(body.styles)
    THEN "styles"
    ELSE IF body.type = "text"
    THEN IF ~VariantIncluded(body.styles.variant) THEN "variant" ELSE "ok"
    ELSE IF BadDimension(body.styles.width) THEN "width"
    ELSE IF BadDimension(body.styles.height) THEN "height"
    ELSE "ok"

\* Variant of validateBlockEdit without the check of an image block's URL
validateBlockEditAnyUrl(type, content, styles) ==
    IF type # "text" /\ type # "image"
    THEN "type"
    ELSE IF ~IsString(content)
    THEN "content"
    ELSE IF StylesFalsy(styles) \/ ~StylesTypeofObject(styles)
    THEN "styles"
    ELSE IF type = "text"
    THEN IF Falsy(styles.variant) \/ ~VariantIncluded(styles.variant)
         THEN "variant"
         ELSE "ok"
    ELSE IF BadDimension(styles.width) THEN "width"
    ELSE IF BadDimension(styles.height) THEN "height"
    ELSE "ok"

\* Client-side validator
validateBlockEdit(type, content, styles) ==
    IF type # "text" /\ type # "image"
    THEN "type"
    ELSE IF ~IsString(content)
    THEN "content"
    ELSE IF type = "image"
            /\ ~StartsWith(content.s, HTTP)
            /\ ~StartsWith(content.s, HTTPS)
    THEN "url"
    ELSE IF StylesFalsy(styles) \/ ~StylesTypeofObject(styles)
    THEN "styles"
    ELSE IF type = "text"
    THEN IF Falsy(styles.variant) \/ ~VariantIncluded(styles.variant)
         THEN "variant"
         ELSE "ok"
    ELSE IF BadDimension(styles.width) THEN "width"
    ELSE IF BadDimension(styles.height) THEN "height"
    ELSE "ok"

\* ------------------------------------------------------------------------
\* Document model: pages, blocks and the list computations of the handlers
\* ------------------------------------------------------------------------

\* null, for ids, error texts and drop sides
Nil == "<null>"

Block(id, type, content, styles) ==
    [id |-> id, type |-> type, content |-> content, styles |-> styles]
Page(id, title, bl) == [id |-> id, title |-> title, blocks |-> bl]
NoPage == Page(Nil, <<>>, <<>>)

Ids(list) == {list[i].id : i \in 1..Len(list)}
IdSeq(list) == [i \in 1..Len(list) |-> list[i].id]
Distinct(list) == \A i, j \in 1..Len(list) : list[i].id = list[j].id => i = j

\* Array.prototype.findIndex on ids, 0-based, -1 when absent
FindIndex(list, id) ==
    IF \E i \in 1..Len(list) : list[i].id = id
    THEN (CHOOSE i \in 1..Len(list) :
              /\ list[i].id = id
              /\ \A j \in 1..(i - 1) : list[j].id # id) - 1
    ELSE -1

\* Array.prototype.find on ids; NoPage stands for undefined
FindPage(list, id) ==
    IF FindIndex(list, id) = -1 THEN NoPage ELSE list[FindIndex(list, id) + 1]

\* Array.prototype.filter((x) => x.id !== id)
RECURSIVE FilterOut(_, _)
FilterOut(list, id) ==
    IF list = <<>> THEN <<>>
    ELSE IF Head(list).id = id THEN FilterOut(Tail(list), id)
    ELSE <<Head(list)>> \o FilterOut(Tail(list), id)

\* list.slice(start0, end0) for 0 <= start0 <= end0
Slice(list, start0, end0) ==
    SubSeq(list, start0 + 1, IF end0 > Len(list) THEN Len(list) ELSE end0)

\* The start index Array.prototype.splice uses: negative counts from the end,
\* and the result is clamped to 0..length.
SpliceStart(list, start0) ==
    IF start0 < 0
    THEN (IF Len(list) + start0 < 0 THEN 0 ELSE Len(list) + start0)
    ELSE (IF start0 > Len(list) THEN Len(list) ELSE start0)

\* list.splice(start0, 1): the list without the element at start0
SpliceRemove(list, start0) ==
    LET st == SpliceStart(list, start0)
    IN Slice(list, 0, st) \o Slice(list, st + 1, Len(list))

\* list.splice(start0, 0, item): the list with item inserted at start0
SpliceInsert(list, start0, item) ==
    LET st == SpliceStart(list, start0)
    IN Slice(list, 0, st) \o <<item>> \o Slice(list, st, Len(list))

\* handleInsertBlockAfter: the new block list
InsertAfterBlock(bl, currentBlockId, newBlock) ==
    LET blockIndex == FindIndex(bl, currentBlockId)
    IN IF blockIndex # -1
       THEN Slice(bl, 0, blockIndex + 1) \o <<newBlock>>
                \o Slice(bl, blockIndex + 1, Len(bl))
       ELSE bl \o <<newBlock>>

\* Variant of InsertAtContext that puts the new block in front of the anchor
InsertBeforeContext(bl, contextBlockId, newBlock) ==
    IF contextBlockId # Nil
    THEN LET blockIndex == FindIndex(bl, contextBlockId)
         IN IF blockIndex # -1
            THEN Slice(bl, 0, blockIndex) \o <<newBlock>>
                     \o Slice(bl, blockIndex, Len(bl))
            ELSE bl \o <<newBlock>>
    ELSE bl \o <<newBlock>>

\* handleSelectBlockType and handleConfirmImageModal: the new block list for
\* the insertion context's block id (null: append)
InsertAtContext(bl, contextBlockId, newBlock) ==
    IF contextBlockId # Nil
    THEN LET blockIndex == FindIndex(bl, contextBlockId)
         IN IF blockIndex # -1
            THEN Slice(bl, 0, blockIndex + 1) \o <<newBlock>>
                     \o Slice(bl, blockIndex + 1, Len(bl))
            ELSE bl \o <<newBlock>>
    ELSE bl \o <<newBlock>>

\* Variant of DropInsertIndex that ignores the shift the removal causes
DropInsertIndexUnshifted(draggedIndex, targetIndex, side) ==
    IF side = "after" THEN targetIndex + 1 ELSE targetIndex

\* handleDrop: the index the dragged block is re-inserted at
DropInsertIndex(draggedIndex, targetIndex, side) ==
    IF side = "after"
    THEN (IF draggedIndex < targetIndex THEN targetIndex ELSE targetIndex + 1)
    ELSE (IF draggedIndex < targetIndex THEN targetIndex - 1 ELSE targetIndex)

\* handleDrop: the reordered list, for indexes that were both found
ReorderOnDrop(bl, draggedIndex, targetIndex, side) ==
    SpliceInsert(SpliceRemove(bl, draggedIndex),
                 DropInsertIndex(draggedIndex, targetIndex, side),
                 bl[draggedIndex + 1])

\* handleUpdateBlock: blocks.map(block => block.id === id ? {id, ...updates} : block)
MapUpdate(bl, id, updates) ==
    [i \in 1..Len(bl) |->
        IF bl[i].id = id
        THEN Block(id, updates.type, updates.content, updates.styles)
        ELSE bl[i]]

\* pages.map(p => p.id === pageId ? {...p, blocks: newBlocks} : p)
MapPageBlocks(pl, pageId, newBlocks) ==
    [i \in 1..Len(pl) |->
        IF pl[i].id = pageId THEN Page(pl[i].id, pl[i].title, newBlocks) ELSE pl[i]]

\* pages.map(p => p.id === pageId ? updatedPage : p)
MapPage(pl, pageId, updatedPage) ==
    [i \in 1..Len(pl) |-> IF pl[i].id = pageId THEN updatedPage ELSE pl[i]]

\* ------------------------------------------------------------------------
\* JSON transport: what JSON.stringify followed by JSON.parse leaves
\* ------------------------------------------------------------------------

\* Infinity and NaN are written as null; an undefined property is dropped,
\* and reading a dropped property gives undefined again.
JsonValue(v) == IF v.k \in {"infinity", "nan"} THEN Null ELSE v

\* An array is written without its named properties; undefined is dropped.
JsonStyles(st) ==
    IF st.k = "array" THEN Styles("array", Undef, Undef, Undef)
    ELSE IF st.k = "object"
    THEN Styles("object", JsonValue(st.variant), JsonValue(st.width),
                JsonValue(st.height))
    ELSE st

JsonBlock(b) == Block(b.id, b.type, JsonValue(b.content), JsonStyles(b.styles))
JsonBlocks(bl) == [i \in 1..Len(bl) |-> JsonBlock(bl[i])]

\* Variant of JsonPage that writes a delta: the id and the blocks only
JsonPageDelta(p) == Page(p.id, <<>>, JsonBlocks(p.blocks))

JsonPage(p) == Page(p.id, p.title, JsonBlocks(p.blocks))
JsonPages(pl) == [i \in 1..Len(pl) |-> JsonPage(pl[i])]

\* ------------------------------------------------------------------------
\* The flat-file stores (pages.json, blocks.json)
\* ------------------------------------------------------------------------

\* A file is absent, holds a JSON array (items), holds another JSON value, or
\* holds text that is not JSON.
ArrayFile(items) == [kind |-> "array", items |-> items]
AbsentFile == [kind |-> "absent", items |-> <<>>]
ValueFile == [kind |-> "value", items |-> <<>>]
TextFile == [kind |-> "text", items |-> <<>>]

\* readPages / readBlocks: ok is FALSE when the read throws (JSON.parse
\* fails); file is the file the read leaves behind.
ReadStore(file) ==
    IF file.kind = "array"
    THEN [ok |-> TRUE, items |-> file.items, file |-> file]
    ELSE IF file.kind \in {"value", "absent"}
    THEN [ok |-> TRUE, items |-> <<>>, file |-> ArrayFile(<<>>)]
    ELSE [ok |-> FALSE, items |-> <<>>, file |-> file]

readPages(file) == ReadStore(file)
readBlocks(file) == ReadStore(file)

\* writePages / writeBlocks
writePages(items) == ArrayFile(items)
writeBlocks(items) == ArrayFile(items)

\* ------------------------------------------------------------------------
\* API route handlers.  Each gives the response (status, error text, data)
\* and the files it leaves.
\* ------------------------------------------------------------------------

Response(status, err, data, pfile, bfile) ==
    [status |-> status, error |-> err, data |-> data,
     pagesFile |-> pfile, blocksFile |-> bfile]

\* !id || typeof id !== 'string' || id.trim().length === 0
BadPageId(id) == id = Nil \/ id = "" \/ id = " "

\* The per-block checks that PUT /api/pages and PUT /api/pages/[id] make
\* inline: "ok" or the error text.
RouteBlockError(block) ==
    IF block.id = Nil \/ block.id = ""
    THEN "Each block must have a string id"
    ELSE IF block.type # "text" /\ block.type # "image"
    THEN "Block type must be \"text\" or \"image\""
    ELSE IF ~IsString(block.content)
    THEN "Each block must have a string content"
    ELSE IF StylesFalsy(block.styles) \/ ~StylesTypeofObject(block.styles)
    THEN "Each block must have a styles object"
    ELSE IF block.type = "text"
    THEN IF ~VariantIncluded(block.styles.variant)
         THEN "Text block must have a valid variant (h1, h2, h3, or paragraph)"
         ELSE "ok"
    ELSE IF ~IsNumber(block.styles.width) \/ LeqZero(block.styles.width)
    THEN "Image block must have a positive number width"
    ELSE IF ~IsNumber(block.styles.height) \/ LeqZero(block.styles.height)
    THEN "Image block must have a positive number height"
    ELSE "ok"

\* for (const block of blocks): the first error, or "ok"
RECURSIVE RouteBlocksError(_)
RouteBlocksError(bl) ==
    IF bl = <<>> THEN "ok"
    ELSE IF RouteBlockError(Head(bl)) # "ok" THEN RouteBlockError(Head(bl))
    ELSE RouteBlocksError(Tail(bl))

\* Variant of GetPages that imports the legacy blocks whenever there are any
GetPagesAlwaysImporting(pfile, bfile, now) ==
    LET rb == readBlocks(bfile)
        importedPage == Page(ToString(now), <<"Imported Page">>, rb.items)
    IN IF Len(rb.items) > 0
       THEN Response(200, Nil, <<importedPage>>, writePages(<<importedPage>>),
                     rb.file)
       ELSE Response(200, Nil, readPages(pfile).items, readPages(pfile).file,
                     rb.file)

\* GET /api/pages, with the legacy migration; now is Date.now()
GetPages(pfile, bfile, now) ==
    LET rp == readPages(pfile)
        rb == readBlocks(bfile)
    IN IF ~rp.ok
       THEN Response(500, "Failed to read pages", <<>>, pfile, bfile)
       ELSE IF Len(rp.items) # 0
       THEN Response(200, Nil, rp.items, rp.file, bfile)
       ELSE IF ~rb.ok
       THEN Response(500, "Failed to read pages", <<>>, rp.file, bfile)
       ELSE IF Len(rb.items) > 0
       THEN LET importedPage ==
                    Page(ToString(now), <<"Imported Page">>, rb.items)
            IN Response(200, Nil, <<importedPage>>,
                        writePages(<<importedPage>>), rb.file)
       ELSE Response(200, Nil, rp.items, rp.file, rb.file)

\* Variant of PostPage in which the server names the page it stores
PostPageServerId(body, pfile, bfile) ==
    LET rp == readPages(pfile)
        newPage == Page("s" \o ToString(Len(rp.items) + 1), Trim(body.title),
                        body.blocks)
    IN Response(201, Nil, <<newPage>>, writePages(Append(rp.items, newPage)),
                bfile)

\* POST /api/pages
PostPage(body, pfile, bfile) ==
    IF BadPageId(body.id)
    THEN Response(400, "ID must be a non-empty string (client-generated UUID)",
                  <<>>, pfile, bfile)
    ELSE IF Trim(body.title) = <<>>
    THEN Response(400, "Title must be a non-empty string", <<>>, pfile, bfile)
    ELSE LET rp == readPages(pfile)
         IN IF ~rp.ok
            THEN Response(500, "Failed to create page", <<>>, pfile, bfile)
            ELSE IF \E i \in 1..Len(rp.items) : rp.items[i].id = body.id
            THEN Response(409, "Page with this ID already exists", <<>>,
                          rp.file, bfile)
            ELSE LET newPage == Page(body.id, Trim(body.title), body.blocks)
                 IN Response(201, Nil, <<newPage>>,
                             writePages(Append(rp.items, newPage)), bfile)

\* PUT /api/pages/[id]
PutPageById(id, body, pfile, bfile) ==
    IF BadPageId(body.id)
    THEN Response(400, "Page must have a non-empty string id", <<>>, pfile, bfile)
    ELSE IF body.id # id
    THEN Response(400, "Page ID in body must match URL parameter", <<>>,
                  pfile, bfile)
    ELSE IF RouteBlocksError(body.blocks) # "ok"
    THEN Response(400, RouteBlocksError(body.blocks), <<>>, pfile, bfile)
    ELSE LET rp == readPages(pfile)
             pageIndex == FindIndex(rp.items, id)
         IN IF ~rp.ok
            THEN Response(500, "Failed to update page", <<>>, pfile, bfile)
            ELSE IF pageIndex = -1
            THEN Response(404, "Page not found", <<>>, rp.file, bfile)
            ELSE Response(200, Nil, <<body>>,
                          writePages([rp.items EXCEPT ![pageIndex + 1] = body]),
                          bfile)

\* DELETE /api/pages/[id]
DeletePageById(id, pfile, bfile) ==
    LET rp == readPages(pfile)
        pageIndex == FindIndex(rp.items, id)
    IN IF ~rp.ok
       THEN Response(500, "Failed to delete page", <<>>, pfile, bfile)
       ELSE IF pageIndex = -1
       THEN Response(404, "Page not found", <<>>, rp.file, bfile)
       ELSE Response(200, Nil, <<>>,
                     writePages(SpliceRemove(rp.items, pageIndex)), bfile)

\* for (const page of body): the first error of PUT /api/pages, or "ok"
RECURSIVE RoutePagesError(_)
RoutePagesError(pl) ==
    IF pl = <<>> THEN "ok"
    ELSE IF BadPageId(Head(pl).id)
    THEN "Each page must have a non-empty string id"
    ELSE IF RouteBlocksError(Head(pl).blocks) # "ok"
    THEN RouteBlocksError(Head(pl).blocks)
    ELSE RoutePagesError(Tail(pl))

\* PUT /api/pages (bulk replace of the page list)
PutPages(body, pfile, bfile) ==
    IF RoutePagesError(body) # "ok"
    THEN Response(400, RoutePagesError(body), <<>>, pfile, bfile)
    ELSE Response(200, Nil, body, writePages(body), bfile)

\* typeof id === 'string' && id.length > 0, for every id of the body
HasValidIds(ids) == \A i \in 1..Len(ids) : ids[i] # Nil /\ ids[i] # ""

\* Variant of PutBlocksReorder without the check for duplicate ids
PutBlocksReorderUnchecked(ids, pfile, bfile) ==
    LET rb == readBlocks(bfile)
        existingBlocks == rb.items
    IN IF Len(ids) # Len(existingBlocks)
       THEN Response(400, "Length mismatch", <<>>, pfile, rb.file)
       ELSE IF \E i \in 1..Len(ids) : ids[i] \notin Ids(existingBlocks)
       THEN Response(400, "Unknown block ID", <<>>, pfile, rb.file)
       ELSE LET reorderedBlocks ==
                    [i \in 1..Len(ids) |->
                        existingBlocks[FindIndex(existingBlocks, ids[i]) + 1]]
            IN Response(200, Nil, reorderedBlocks, pfile,
                        writeBlocks(reorderedBlocks))

\* PUT /api/blocks (legacy reorder by id list)
PutBlocksReorder(ids, pfile, bfile) ==
    IF ~HasValidIds(ids)
    THEN Response(400, "All items must be non-empty ID strings", <<>>,
                  pfile, bfile)
    ELSE LET rb == readBlocks(bfile)
             existingBlocks == rb.items
         IN IF ~rb.ok
            THEN Response(500, "Failed to reorder blocks", <<>>, pfile, bfile)
            ELSE IF Len(ids) # Len(existingBlocks)
            THEN Response(400, "Length mismatch", <<>>, pfile, rb.file)
            ELSE IF \E i, j \in 1..Len(ids) : i # j /\ ids[i] = ids[j]
            THEN Response(400, "Duplicate block ID found", <<>>, pfile, rb.file)
            ELSE IF \E i \in 1..Len(ids) : ids[i] \notin Ids(existingBlocks)
            THEN Response(400, "Unknown block ID", <<>>, pfile, rb.file)
            ELSE LET reorderedBlocks ==
                         [i \in 1..Len(ids) |->
                             \* new Map(entries): the last entry of an id wins
                             existingBlocks[CHOOSE j \in 1..Len(existingBlocks) :
                                 /\ existingBlocks[j].id = ids[i]
                                 /\ \A m \in (j + 1)..Len(existingBlocks) :
                                        existingBlocks[m].id # ids[i]]]
                 IN Response(200, Nil, reorderedBlocks, pfile,
                             writeBlocks(reorderedBlocks))

\* ------------------------------------------------------------------------
\* State
\* ------------------------------------------------------------------------

VARIABLES
    \* Home: useState
    pages, selectedPageId, blocks, error, pagesLoading, pagesError,
    draggedBlockId, dragOverBlockId, dropPosition,
    isBlockMenuOpen, blockMenuContext, isImageModalOpen, imageModalContext,
    focusBlockId, selectedBlockId, showEmptyBlock,
    isEditingPageTitle, editingPageTitle, pageTitleError,
    \* Sidebar: useState
    editingPageId, editingTitle, renameError, draggedPageId, dragOverPageId,
    \* Block: useState of the block whose edit form is open (editingBlockId
    \* is its id, null while every block has isEditing false)
    editingBlockId, isSaving, blockError,
    \* fetch calls that have not resolved yet, in dispatch order
    calls,
    \* the server: data/pages.json, data/blocks.json, Date.now()
    pagesFile, blocksFile, clock,
    \* crypto.randomUUID: how many ids were drawn
    idsDrawn,
    \* persistence calls dispatched so far, and how many the behaviour lets
    \* be outstanding at the same time
    opCount, inFlightLimit,
    \* the last step taken: the handler, its arguments, the state it started
    \* from and (for a step of a call) the call
    ev,
    \* the validators' input and their verdicts
    candidate, verdictInput, verdictEdit,
    \* ImageModal: its useState values (url, width, height,
    \* isLoadingDimensions, dimensionError, urlError, showPreview), its refs
    \* (debounceTimerRef, requestIdRef) and the dimension detections that have
    \* not settled yet
    imageModal

homeVars == <<pages, selectedPageId, blocks, error, pagesLoading, pagesError>>
dragVars == <<draggedBlockId, dragOverBlockId, dropPosition>>
menuVars == <<isBlockMenuOpen, blockMenuContext, isImageModalOpen,
              imageModalContext, showEmptyBlock>>
selectVars == <<focusBlockId, selectedBlockId>>
titleVars == <<isEditingPageTitle, editingPageTitle, pageTitleError>>
sidebarEditVars == <<editingPageId, editingTitle, renameError>>
sidebarDragVars == <<draggedPageId, dragOverPageId>>
formVars == <<editingBlockId, isSaving, blockError>>
serverVars == <<pagesFile, blocksFile, clock>>
validatorVars == <<candidate, verdictInput, verdictEdit>>

vars == <<homeVars, dragVars, menuVars, selectVars, titleVars,
          sidebarEditVars, sidebarDragVars, formVars, calls, serverVars,
          idsDrawn, opCount, inFlightLimit, ev, validatorVars,
          imageModal>>

\* ImageModal before it was ever opened.  A URL is a sequence of characters,
\* width and height are the strings of the two inputs; timer is the URL of
\* the render whose effect set the pending debounce timer.
NoTimer == [set |-> FALSE, url |-> <<>>]
InitialModal ==
    [url |-> <<>>, width |-> <<>>, height |-> <<>>,
     isLoadingDimensions |-> FALSE, dimensionError |-> Nil, urlError |-> Nil,
     showPreview |-> FALSE, debounceTimerRef |-> NoTimer, requestIdRef |-> 0,
     detections |-> {}]

\* crypto.randomUUID(): the ids it returns, in the order it returns them
UUIDS == <<"u1", "u2", "u3", "u4">>
\* Variant: a generator that returns the value it returned before
RepeatedUUID == UUIDS[1]
NextUUID == UUIDS[idsDrawn + 1]

Context(blockId, insertPosition) ==
    [blockId |-> blockId, insertPosition |-> insertPosition]
BottomContext == Context(Nil, "bottom")

\* What the handler that awaits a call does once the call succeeded, beyond
\* setting state: nothing, or (handleInlineKeyDown) the insertion of a
\* paragraph after block blockId, called through the props and so with the
\* pages, blocks and selectedPageId of the render the key was pressed in.
\* typed is the text the block held when the key was pressed.
NoAfter ==
    [step |-> "none", blockId |-> Nil, typed |-> <<>>,
     pages |-> <<>>, blocks |-> <<>>, selectedPageId |-> Nil]

NoCall ==
    [op |-> "none", handler |-> "none", pageId |-> Nil, page |-> NoPage,
     list |-> <<>>, previousPages |-> <<>>, previousBlocks |-> <<>>,
     previousSelectedPageId |-> Nil, newId |-> Nil,
     stage |-> "request", status |-> 0, errText |-> Nil, data |-> <<>>,
     after |-> NoAfter,
     \* observation only: the local state the call was dispatched from, and
     \* whether it was the only call outstanding from dispatch until now,
     \* whether another call was dispatched while it was outstanding
     sPages |-> <<>>, sBlocks |-> <<>>, sSel |-> Nil, alone |-> FALSE,
     overtaken |-> FALSE,
     \* the AbortController of the call was aborted
     aborted |-> FALSE]

NoEvent ==
    [h |-> "init", id |-> Nil, id2 |-> Nil, side |-> Nil, title |-> <<>>,
     prePages |-> <<>>, preBlocks |-> <<>>, preSel |-> Nil,
     preSelectedBlock |-> Nil,
     prePagesFile |-> AbsentFile, preBlocksFile |-> AbsentFile,
     preCalls |-> 0, call |-> NoCall, outcome |-> "none",
     ids |-> <<>>,
     \* the error text a catch block of Home passed to setError, as rendered
     \* before the effects of that render ran
     errorSet |-> Nil,
     \* the block whose edit form was open when the step started
     preEditing |-> Nil,
     prePagesLoading |-> TRUE, prePagesError |-> Nil]

\* A step of handler h that starts from the current state
Event(h) ==
    [NoEvent EXCEPT !.h = h, !.prePages = pages, !.preBlocks = blocks,
                    !.preSel = selectedPageId,
                    !.preSelectedBlock = selectedBlockId,
                    !.prePagesFile = pagesFile,
                    !.preBlocksFile = blocksFile, !.preCalls = Len(calls),
                    !.preEditing = editingBlockId,
                    !.prePagesLoading = pagesLoading,
                    !.prePagesError = pagesError]

\* ------------------------------------------------------------------------
\* Home: effects
\* ------------------------------------------------------------------------

\* useEffect [pages, selectedPageId]: auto-select the first page
AutoSelect(pl, sel) == IF Len(pl) > 0 /\ sel = Nil THEN pl[1].id ELSE sel

\* useEffect [selectedPageId, pages]: load the selected page's blocks
LoadBlocks(pl, sel, bl, err) ==
    IF sel = Nil THEN [blocks |-> <<>>, error |-> err]
    ELSE IF FindIndex(pl, sel) = -1
    THEN [blocks |-> bl, error |-> "Page not found"]
    ELSE [blocks |-> FindPage(pl, sel).blocks, error |-> Nil]

\* The state a handler leaves once React has rendered its batched updates
\* and run the effects they trigger.  pl, sel, bl, err are the values the
\* handler set (or the current ones); pagesSet says whether it called
\* setPages (every setPages of the component passes a new array).
Commit(pl, pagesSet, sel, bl, err) ==
    LET sel1 == AutoSelect(pl, sel)
        ran == pagesSet \/ sel # selectedPageId \/ sel1 # sel
        loaded == LoadBlocks(pl, sel1, bl, err)
    IN /\ pages' = pl
       /\ selectedPageId' = sel1
       /\ blocks' = IF ran THEN loaded.blocks ELSE bl
       /\ error' = IF ran THEN loaded.error ELSE err

\* ------------------------------------------------------------------------
\* Home: persistence calls
\* ------------------------------------------------------------------------

CanDispatch == opCount < MaxOps /\ Len(calls) < inFlightLimit

\* The calls once call c is dispatched while the calls of base are in flight
DispatchedOn(base, c) ==
    Append([i \in 1..Len(base) |-> [base[i] EXCEPT !.alone = FALSE,
                                        !.overtaken = TRUE]],
           [c EXCEPT !.sPages = pages, !.sBlocks = blocks,
                     !.sSel = selectedPageId, !.alone = (base = <<>>)])

\* The calls once call c is dispatched
Dispatched(c) == DispatchedOn(calls, c)

\* Variant of SnapshotPages taken after the optimistic update
SnapshotPagesLate(current, updated) == updated

\* const previousPages = [...pages]
SnapshotPages(current, updated) == current
\* const previousBlocks = [...blocks]
SnapshotBlocks(current, updated) == current

\* updatePageBlocks up to its await: the optimistic update and the call.
\* handler is the handler that called it, newId the id of the block the
\* handler created (null when it created none).
updatePageBlocksThen(handler, pageId, newBlocks, newId, after) ==
    LET updatedPages == MapPageBlocks(pages, pageId, newBlocks)
        found == FindIndex(updatedPages, pageId) # -1
        call == [NoCall EXCEPT
                    !.op = "putPage", !.handler = handler, !.pageId = pageId,
                    !.page = JsonPage(FindPage(updatedPages, pageId)),
                    !.previousPages = SnapshotPages(pages, updatedPages),
                    !.previousBlocks = SnapshotBlocks(blocks, newBlocks),
                    !.newId = newId, !.after = after]
    IN /\ found => CanDispatch
       /\ Commit(updatedPages, TRUE, selectedPageId, newBlocks, error)
       /\ calls' = IF found THEN Dispatched(call) ELSE calls
       /\ opCount' = IF found THEN opCount + 1 ELSE opCount

\* updatePageBlocks called by a handler that only sets state after it
updatePageBlocks(handler, pageId, newBlocks, newId) ==
    updatePageBlocksThen(handler, pageId, newBlocks, newId, NoAfter)

\* ------------------------------------------------------------------------
\* Home: block handlers
\* ------------------------------------------------------------------------

\* Inputs of the handlers
VariantInputs == {"paragraph", "h1"}
ContentInputs == {<<>>, <<"x">>}
UpdateInputs ==
    {[type |-> "text", content |-> Str(<<"z">>), styles |-> TextStyles("h3")],
     [type |-> "image", content |-> Str(HTTP \o XPNG),
      styles |-> ImageStyles(300, 200)]}
Sides == {"before", "after"}

\* The block list is rendered for a selected page once the pages are loaded
\* and no error banner replaces it.
BlocksRendered ==
    /\ ~pagesLoading /\ pagesError = Nil /\ Len(pages) > 0
    /\ selectedPageId # Nil /\ error = Nil

\* A drag gesture holds the pointer, the block menu and the image modal are
\* overlays that take the next click or key, and a title input saves on blur:
\* no other handler of the page fires until they end.
Quiet ==
    /\ draggedBlockId = Nil /\ ~isBlockMenuOpen /\ ~isImageModalOpen
    /\ draggedPageId = Nil /\ editingPageId = Nil /\ ~isEditingPageTitle

\* Gestures are followed while a persistence call can still be dispatched
Gesture == opCount < MaxOps /\ Quiet

notHome == <<titleVars, sidebarEditVars, sidebarDragVars, formVars,
             serverVars, inFlightLimit, validatorVars,
             imageModal>>

handleOpenMenuForBlock(blockId) ==
    /\ Gesture /\ BlocksRendered /\ blockId \in Ids(blocks)
    /\ isBlockMenuOpen' = TRUE
    /\ blockMenuContext' = Context(blockId, "after")
    /\ ev' = [Event("handleOpenMenuForBlock") EXCEPT !.id = blockId]
    /\ UNCHANGED <<homeVars, dragVars, isImageModalOpen, imageModalContext,
                   showEmptyBlock, selectVars, calls, idsDrawn, opCount,
                   notHome>>

handleEmptyAreaClick ==
    /\ Gesture /\ BlocksRendered /\ ~showEmptyBlock
    /\ showEmptyBlock' = TRUE
    /\ ev' = Event("handleEmptyAreaClick")
    /\ UNCHANGED <<homeVars, dragVars, isBlockMenuOpen, blockMenuContext,
                   isImageModalOpen, imageModalContext, selectVars, calls,
                   idsDrawn, opCount, notHome>>

handleOpenMenuForEmpty ==
    /\ Gesture /\ BlocksRendered /\ showEmptyBlock
    /\ isBlockMenuOpen' = TRUE
    /\ blockMenuContext' = BottomContext
    /\ ev' = Event("handleOpenMenuForEmpty")
    /\ UNCHANGED <<homeVars, dragVars, isImageModalOpen, imageModalContext,
                   showEmptyBlock, selectVars, calls, idsDrawn, opCount,
                   notHome>>

\* Escape in the menu, a click outside it
handleCloseMenu ==
    /\ isBlockMenuOpen
    /\ isBlockMenuOpen' = FALSE
    /\ blockMenuContext' = BottomContext
    /\ ev' = Event("handleCloseMenu")
    /\ UNCHANGED <<homeVars, dragVars, isImageModalOpen, imageModalContext,
                   showEmptyBlock, selectVars, calls, idsDrawn, opCount,
                   notHome>>

handleCloseImageModal ==
    /\ isImageModalOpen
    /\ isImageModalOpen' = FALSE
    /\ imageModalContext' = BottomContext
    /\ ev' = Event("handleCloseImageModal")
    /\ UNCHANGED <<homeVars, dragVars, isBlockMenuOpen, blockMenuContext,
                   showEmptyBlock, selectVars, calls, idsDrawn, opCount,
                   notHome>>

\* Variant of SelectImageType that opens the image modal for the page bottom
SelectImageTypeAtBottom ==
    /\ isBlockMenuOpen /\ selectedPageId # Nil
    /\ isBlockMenuOpen' = FALSE
    /\ blockMenuContext' = BottomContext
    /\ isImageModalOpen' = TRUE
    /\ imageModalContext' = BottomContext
    /\ ev' = [Event("handleSelectBlockType:image") EXCEPT
                 !.id = blockMenuContext.blockId]
    /\ UNCHANGED <<homeVars, dragVars, showEmptyBlock, selectVars, calls,
                   idsDrawn, opCount, notHome>>

\* handleSelectBlockType('image') and the menu's onSelectImage: close the
\* menu, open the image modal with the menu's context
SelectImageType ==
    /\ isBlockMenuOpen /\ selectedPageId # Nil
    /\ isBlockMenuOpen' = FALSE
    /\ blockMenuContext' = BottomContext
    /\ isImageModalOpen' = TRUE
    /\ imageModalContext' = blockMenuContext
    /\ ev' = [Event("handleSelectBlockType:image") EXCEPT
                 !.id = blockMenuContext.blockId]
    /\ UNCHANGED <<homeVars, dragVars, showEmptyBlock, selectVars, calls,
                   idsDrawn, opCount, notHome>>

\* handleSelectBlockType('text', variant)
handleSelectBlockType(variant) ==
    /\ isBlockMenuOpen /\ selectedPageId # Nil
    /\ idsDrawn < Len(UUIDS)
    /\ LET newBlockId == NextUUID
           newBlock == Block(newBlockId, "text", Str(<<>>), TextStyles(variant))
           updatedBlocks ==
               InsertAtContext(blocks, blockMenuContext.blockId, newBlock)
       IN /\ updatePageBlocks("handleSelectBlockType", selectedPageId,
                              updatedBlocks, newBlockId)
          /\ ev' = [Event("handleSelectBlockType") EXCEPT
                       !.id = blockMenuContext.blockId, !.id2 = newBlockId]
    /\ idsDrawn' = idsDrawn + 1
    /\ isBlockMenuOpen' = FALSE
    /\ blockMenuContext' = BottomContext
    /\ UNCHANGED <<pagesLoading, pagesError, dragVars, isImageModalOpen,
                   imageModalContext, showEmptyBlock, selectVars, notHome>>

\* Variant: the image block is created with the styles of a new text block
handleConfirmImageModalTextStyles(url, width, height) ==
    /\ isImageModalOpen /\ selectedPageId # Nil
    /\ idsDrawn < Len(UUIDS)
    /\ LET newBlockId == NextUUID
           newBlock == Block(newBlockId, "image", Str(url),
                             TextStyles("paragraph"))
           updatedBlocks ==
               InsertAtContext(blocks, imageModalContext.blockId, newBlock)
       IN /\ updatePageBlocks("handleConfirmImageModal", selectedPageId,
                              updatedBlocks, newBlockId)
          /\ ev' = [Event("handleConfirmImageModal") EXCEPT
                       !.id = imageModalContext.blockId, !.id2 = newBlockId]
    /\ idsDrawn' = idsDrawn + 1
    /\ isImageModalOpen' = FALSE
    /\ imageModalContext' = BottomContext
    /\ UNCHANGED <<pagesLoading, pagesError, dragVars, isBlockMenuOpen,
                   blockMenuContext, showEmptyBlock, selectVars, notHome>>

\* handleConfirmImageModal(url, width, height)
handleConfirmImageModal(url, width, height) ==
    /\ isImageModalOpen /\ selectedPageId # Nil
    /\ idsDrawn < Len(UUIDS)
    /\ LET newBlockId == NextUUID
           newBlock == Block(newBlockId, "image", Str(url),
                             ImageStyles(width, height))
           updatedBlocks ==
               InsertAtContext(blocks, imageModalContext.blockId, newBlock)
       IN /\ updatePageBlocks("handleConfirmImageModal", selectedPageId,
                              updatedBlocks, newBlockId)
          /\ ev' = [Event("handleConfirmImageModal") EXCEPT
                       !.id = imageModalContext.blockId, !.id2 = newBlockId]
    /\ idsDrawn' = idsDrawn + 1
    /\ isImageModalOpen' = FALSE
    /\ imageModalContext' = BottomContext
    /\ UNCHANGED <<pagesLoading, pagesError, dragVars, isBlockMenuOpen,
                   blockMenuContext, showEmptyBlock, selectVars, notHome>>

\* handleInsertBlockAfter(currentBlockId, 'image'): open the image modal
InsertImageAfter(currentBlockId) ==
    /\ Gesture /\ BlocksRendered /\ currentBlockId \in Ids(blocks)
    /\ isImageModalOpen' = TRUE
    /\ imageModalContext' = Context(currentBlockId, "after")
    /\ ev' = [Event("handleInsertBlockAfter:image") EXCEPT !.id = currentBlockId]
    /\ UNCHANGED <<homeVars, dragVars, isBlockMenuOpen, blockMenuContext,
                   showEmptyBlock, selectVars, calls, idsDrawn, opCount,
                   notHome>>

\* handleInsertBlockAfter(currentBlockId, 'text', variant)
handleInsertBlockAfter(currentBlockId, variant) ==
    /\ Quiet /\ BlocksRendered /\ currentBlockId \in Ids(blocks)
    /\ idsDrawn < Len(UUIDS)
    /\ LET newBlockId == NextUUID
           newBlock == Block(newBlockId, "text", Str(<<>>), TextStyles(variant))
           updatedBlocks == InsertAfterBlock(blocks, currentBlockId, newBlock)
       IN /\ updatePageBlocks("handleInsertBlockAfter", selectedPageId,
                              updatedBlocks, newBlockId)
          /\ ev' = [Event("handleInsertBlockAfter") EXCEPT
                       !.id = currentBlockId, !.id2 = newBlockId]
    /\ idsDrawn' = idsDrawn + 1
    /\ UNCHANGED <<pagesLoading, pagesError, dragVars, menuVars, selectVars,
                   notHome>>

\* handleCreateFromEmpty(content, variant) for a text variant
handleCreateFromEmpty(content, variant) ==
    /\ Quiet /\ BlocksRendered /\ showEmptyBlock
    /\ idsDrawn < Len(UUIDS)
    /\ LET newBlockId == NextUUID
           newBlock == Block(newBlockId, "text", Str(content), TextStyles(variant))
           updatedBlocks == blocks \o <<newBlock>>
       IN /\ updatePageBlocks("handleCreateFromEmpty", selectedPageId,
                              updatedBlocks, Nil)
          /\ ev' = [Event("handleCreateFromEmpty") EXCEPT !.id2 = newBlockId]
    /\ idsDrawn' = idsDrawn + 1
    /\ showEmptyBlock' = FALSE
    /\ UNCHANGED <<pagesLoading, pagesError, dragVars, isBlockMenuOpen,
                   blockMenuContext, isImageModalOpen, imageModalContext,
                   selectVars, notHome>>

\* handleCreateFromEmpty(content, 'image'): open the image modal
CreateImageFromEmpty ==
    /\ Gesture /\ BlocksRendered /\ showEmptyBlock
    /\ isImageModalOpen' = TRUE
    /\ imageModalContext' = BottomContext
    /\ ev' = Event("handleCreateFromEmpty:image")
    /\ UNCHANGED <<homeVars, dragVars, isBlockMenuOpen, blockMenuContext,
                   showEmptyBlock, selectVars, calls, idsDrawn, opCount,
                   notHome>>

handleDragStart(id) ==
    /\ Gesture /\ BlocksRendered /\ id \in Ids(blocks)
    /\ draggedBlockId = Nil
    /\ draggedBlockId' = id
    /\ ev' = [Event("handleDragStart") EXCEPT !.id = id]
    /\ UNCHANGED <<homeVars, dragOverBlockId, dropPosition, menuVars,
                   selectVars, calls, idsDrawn, opCount, notHome>>

\* Variant of handleDragEnd that leaves the drop target highlighted
handleDragEndKeepsTarget ==
    /\ draggedBlockId # Nil
    /\ draggedBlockId' = Nil
    /\ ev' = Event("handleDragEnd")
    /\ UNCHANGED <<homeVars, dragOverBlockId, dropPosition, menuVars,
                   selectVars, calls, idsDrawn, opCount, notHome>>

handleDragEnd ==
    /\ draggedBlockId # Nil
    /\ draggedBlockId' = Nil
    /\ dragOverBlockId' = Nil
    /\ dropPosition' = Nil
    /\ ev' = Event("handleDragEnd")
    /\ UNCHANGED <<homeVars, menuVars, selectVars, calls, idsDrawn, opCount,
                   notHome>>

handleDragOver(id, position) ==
    /\ BlocksRendered /\ id \in Ids(blocks)
    /\ draggedBlockId # Nil /\ draggedBlockId # id
    /\ dragOverBlockId' = id
    /\ dropPosition' = position
    /\ ev' = [Event("handleDragOver") EXCEPT !.id = id, !.side = position]
    /\ UNCHANGED <<homeVars, draggedBlockId, menuVars, selectVars, calls,
                   idsDrawn, opCount, notHome>>

handleDragLeave(id) ==
    /\ BlocksRendered /\ id \in Ids(blocks)
    /\ dragOverBlockId = id
    /\ dragOverBlockId' = Nil
    /\ dropPosition' = Nil
    /\ ev' = [Event("handleDragLeave") EXCEPT !.id = id]
    /\ UNCHANGED <<homeVars, draggedBlockId, menuVars, selectVars, calls,
                   idsDrawn, opCount, notHome>>

\* handleSelectBlock(blockId): onSelect of the Block of the list with that id
handleSelectBlock(blockId) ==
    /\ Quiet /\ BlocksRendered /\ blockId \in Ids(blocks)
    /\ selectedBlockId' = blockId
    /\ ev' = [Event("handleSelectBlock") EXCEPT !.id = blockId]
    /\ UNCHANGED <<homeVars, dragVars, menuVars, focusBlockId, calls, idsDrawn,
                   opCount, notHome>>

\* Where a click that reaches handleMainClick lands: inside a block
\* container, or outside the block containers, the empty area and EmptyBlock
ClickTargets == {"block", "outside"}

\* handleMainClick
handleMainClick(target) ==
    /\ Quiet
    /\ selectedBlockId' = IF target = "outside" THEN Nil ELSE selectedBlockId
    /\ showEmptyBlock' = FALSE
    /\ ev' = [Event("handleMainClick") EXCEPT !.outcome = target]
    /\ UNCHANGED <<homeVars, dragVars, isBlockMenuOpen, blockMenuContext,
                   isImageModalOpen, imageModalContext, focusBlockId, calls,
                   idsDrawn, opCount, notHome>>

\* Variant of DropRejected that does not look the target up in the list
DropRejectedUnlessTargetGone(targetId) ==
    \/ draggedBlockId = Nil
    \/ draggedBlockId = targetId
    \/ FindIndex(blocks, draggedBlockId) = -1

\* handleDrop(targetId) when it returns early: nothing is dragged, the block
\* is dropped on itself, or one of the two ids is not in the list
DropRejected(targetId) ==
    \/ draggedBlockId = Nil
    \/ draggedBlockId = targetId
    \/ FindIndex(blocks, draggedBlockId) = -1
    \/ FindIndex(blocks, targetId) = -1

\* handleDrop(targetId)
Drop(targetId) ==
    /\ draggedBlockId' = Nil
    /\ dragOverBlockId' = Nil
    /\ dropPosition' = Nil
    /\ ev' = [Event("handleDrop") EXCEPT
                 !.id = draggedBlockId, !.id2 = targetId, !.side = dropPosition,
                 !.outcome = IF DropRejected(targetId) THEN "rejected"
                             ELSE "accepted"]
    /\ IF DropRejected(targetId)
       THEN UNCHANGED <<homeVars, selectVars, calls, opCount>>
       ELSE LET reorderedBlocks ==
                    ReorderOnDrop(blocks, FindIndex(blocks, draggedBlockId),
                                  FindIndex(blocks, targetId), dropPosition)
            IN /\ selectedBlockId' = Nil
               /\ updatePageBlocks("handleDrop", selectedPageId,
                                   reorderedBlocks, Nil)
               /\ UNCHANGED <<pagesLoading, pagesError, focusBlockId>>
    /\ UNCHANGED <<menuVars, idsDrawn, notHome>>

\* The browser fires drop on a block of the list, the one it last fired
\* dragover on
handleDrop(targetId) ==
    /\ BlocksRendered /\ targetId \in Ids(blocks)
    /\ draggedBlockId # Nil
    /\ targetId = draggedBlockId \/ dragOverBlockId = targetId
    /\ Drop(targetId)

\* handleDrop(targetId) for the block last dragged over, which has left the
\* list since
DropOnRemovedBlock(targetId) ==
    /\ BlocksRendered /\ targetId \notin Ids(blocks)
    /\ draggedBlockId # Nil /\ dragOverBlockId = targetId
    /\ Drop(targetId)

\* handleUpdateBlock(id, updates)
UpdateBlock(id, updates) ==
    /\ selectedPageId # Nil
    /\ updatePageBlocks("handleUpdateBlock", selectedPageId,
                        MapUpdate(blocks, id, updates), Nil)
    /\ ev' = [Event("handleUpdateBlock") EXCEPT !.id = id]
    /\ UNCHANGED <<pagesLoading, pagesError, dragVars, menuVars, selectVars,
                   idsDrawn, notHome>>

\* A Block of the list calls onUpdate with its own id
handleUpdateBlock(id, updates) ==
    /\ Quiet /\ BlocksRendered /\ id \in Ids(blocks)
    /\ UpdateBlock(id, updates)

\* handleUpdateBlock called with an id that is not in the list
UpdateUnknownBlock(id, updates) ==
    /\ Quiet /\ BlocksRendered /\ id \notin Ids(blocks)
    /\ UpdateBlock(id, updates)

\* handleDeleteBlock(id)
DeleteBlock(id) ==
    /\ selectedPageId # Nil
    /\ updatePageBlocks("handleDeleteBlock", selectedPageId,
                        FilterOut(blocks, id), Nil)
    /\ ev' = [Event("handleDeleteBlock") EXCEPT !.id = id]
    /\ UNCHANGED <<pagesLoading, pagesError, dragVars, menuVars, selectVars,
                   idsDrawn, notHome>>

\* A Block of the list calls onDelete with its own id
handleDeleteBlock(id) ==
    /\ Quiet /\ BlocksRendered /\ id \in Ids(blocks)
    /\ DeleteBlock(id)

\* handleDeleteBlock called with an id that is not in the list
DeleteUnknownBlock(id) ==
    /\ Quiet /\ BlocksRendered /\ id \notin Ids(blocks)
    /\ DeleteBlock(id)

handleSelectPage(pageId) ==
    /\ Gesture
    /\ pageId \in Ids(pages)
    /\ pageId # selectedPageId \/ error # Nil
    /\ Commit(pages, FALSE, pageId, blocks, Nil)
    /\ ev' = [Event("handleSelectPage") EXCEPT !.id = pageId]
    /\ UNCHANGED <<pagesLoading, pagesError, dragVars, menuVars, selectVars,
                   calls, idsDrawn, opCount, notHome>>

\* ------------------------------------------------------------------------
\* Home: page handlers
\* ------------------------------------------------------------------------

\* Titles typed into window.prompt and into the title inputs
TitleInputs == {<<>>, <<" ">>, <<"A">>, <<" ", "A">>, <<"A", " ">>, <<"B">>}

notPage == <<dragVars, menuVars, selectVars, formVars, serverVars,
             inFlightLimit, validatorVars,
             imageModal>>

\* handleCreatePage, window.prompt returning title
handleCreatePage(title) ==
    /\ Gesture
    /\ IF Trim(title) = <<>>
       THEN /\ ev' = [Event("handleCreatePage") EXCEPT
                        !.title = title, !.outcome = "rejected"]
            /\ UNCHANGED <<homeVars, calls, opCount, idsDrawn>>
       ELSE LET newPageId == NextUUID
                newPage == Page(newPageId, Trim(title), <<>>)
                call == [NoCall EXCEPT !.op = "postPage",
                            !.handler = "handleCreatePage",
                            !.pageId = newPageId, !.page = JsonPage(newPage),
                            !.newId = newPageId]
            IN /\ CanDispatch /\ idsDrawn < Len(UUIDS)
               /\ Commit(Append(pages, newPage), TRUE, newPageId, blocks, error)
               /\ calls' = Dispatched(call)
               /\ opCount' = opCount + 1
               /\ idsDrawn' = idsDrawn + 1
               /\ ev' = [Event("handleCreatePage") EXCEPT
                           !.title = title, !.id = newPageId,
                           !.outcome = "accepted"]
               /\ UNCHANGED <<pagesLoading, pagesError>>
    /\ UNCHANGED <<titleVars, sidebarEditVars, sidebarDragVars, notPage>>

\* Whether handleRenamePage(pageId, newTitle) returns before its update
RenameRejected(pageId, newTitle) ==
    Trim(newTitle) = <<>> \/ FindIndex(pages, pageId) = -1

\* Variant of RenamePage that copies the page list for the rollback after the
\* optimistic update
RenamePageLateSnapshot(caller, pageId, newTitle) ==
    IF RenameRejected(pageId, newTitle)
    THEN UNCHANGED <<homeVars, calls, opCount>>
    ELSE LET updatedPage ==
                 [FindPage(pages, pageId) EXCEPT !.title = Trim(newTitle)]
             call == [NoCall EXCEPT !.op = "putPage", !.handler = caller,
                         !.pageId = pageId, !.page = JsonPage(updatedPage),
                         !.previousPages = MapPage(pages, pageId, updatedPage)]
         IN /\ CanDispatch
            /\ Commit(MapPage(pages, pageId, updatedPage), TRUE,
                      selectedPageId, blocks, error)
            /\ calls' = Dispatched(call)
            /\ opCount' = opCount + 1
            /\ UNCHANGED <<pagesLoading, pagesError>>

\* The part of handleRenamePage(pageId, newTitle) up to its fetch; caller is
\* the handler that awaits it
RenamePage(caller, pageId, newTitle) ==
    IF RenameRejected(pageId, newTitle)
    THEN UNCHANGED <<homeVars, calls, opCount>>
    ELSE LET updatedPage ==
                 [FindPage(pages, pageId) EXCEPT !.title = Trim(newTitle)]
             call == [NoCall EXCEPT !.op = "putPage", !.handler = caller,
                         !.pageId = pageId, !.page = JsonPage(updatedPage),
                         !.previousPages = pages]
         IN /\ CanDispatch
            /\ Commit(MapPage(pages, pageId, updatedPage), TRUE,
                      selectedPageId, blocks, error)
            /\ calls' = Dispatched(call)
            /\ opCount' = opCount + 1
            /\ UNCHANGED <<pagesLoading, pagesError>>

\* handleRenamePage invoked through the onRenamePage prop
handleRenamePage(pageId, newTitle) ==
    /\ Gesture
    /\ RenamePage("handleRenamePage", pageId, newTitle)
    /\ ev' = [Event("handleRenamePage") EXCEPT
                 !.id = pageId, !.title = newTitle]
    /\ UNCHANGED <<titleVars, sidebarEditVars, sidebarDragVars, idsDrawn,
                   notPage>>

handlePageTitleClick ==
    /\ Gesture
    /\ ~pagesLoading /\ pagesError = Nil /\ Len(pages) > 0
    /\ selectedPageId # Nil /\ ~isEditingPageTitle
    /\ isEditingPageTitle' = TRUE
    /\ editingPageTitle' = FindPage(pages, selectedPageId).title
    /\ pageTitleError' = Nil
    /\ ev' = Event("handlePageTitleClick")
    /\ UNCHANGED <<homeVars, calls, opCount, idsDrawn, sidebarEditVars,
                   sidebarDragVars, notPage>>

handlePageTitleChange(value) ==
    /\ isEditingPageTitle /\ value # editingPageTitle
    /\ editingPageTitle' = value
    /\ ev' = [Event("handlePageTitleChange") EXCEPT !.title = value]
    /\ UNCHANGED <<homeVars, calls, opCount, idsDrawn, isEditingPageTitle,
                   pageTitleError, sidebarEditVars, sidebarDragVars, notPage>>

handlePageTitleCancel ==
    /\ isEditingPageTitle
    /\ isEditingPageTitle' = FALSE
    /\ editingPageTitle' = <<>>
    /\ pageTitleError' = Nil
    /\ ev' = Event("handlePageTitleCancel")
    /\ UNCHANGED <<homeVars, calls, opCount, idsDrawn, sidebarEditVars,
                   sidebarDragVars, notPage>>

\* handlePageTitleSave (Enter or blur); the editor closes at once unless a
\* rename is awaited
handlePageTitleSave ==
    LET trimmedTitle == Trim(editingPageTitle)
        renames == /\ trimmedTitle # <<>>
                   /\ trimmedTitle # FindPage(pages, selectedPageId).title
                   /\ selectedPageId # Nil
        awaits == renames /\ ~RenameRejected(selectedPageId, trimmedTitle)
    IN /\ isEditingPageTitle
       /\ IF renames
          THEN RenamePage("handlePageTitleSave", selectedPageId, trimmedTitle)
          ELSE UNCHANGED <<homeVars, calls, opCount>>
       /\ IF awaits
          THEN UNCHANGED titleVars
          ELSE /\ isEditingPageTitle' = FALSE
               /\ editingPageTitle' = <<>>
               /\ pageTitleError' = Nil
       /\ ev' = [Event("handlePageTitleSave") EXCEPT
                    !.id = selectedPageId, !.title = editingPageTitle]
       /\ UNCHANGED <<idsDrawn, sidebarEditVars, sidebarDragVars, notPage>>

\* Variant of handleDeletePage that notes the selected page for the rollback
\* after it selected another one
handleDeletePageLateSnapshot(pageId) ==
    /\ Quiet
    /\ pageId \in Ids(pages)
    /\ CanDispatch
    /\ LET updatedPages == FilterOut(pages, pageId)
           sel == IF selectedPageId = pageId
                  THEN (IF Len(updatedPages) > 0 THEN updatedPages[1].id ELSE Nil)
                  ELSE selectedPageId
           call == [NoCall EXCEPT !.op = "deletePage",
                       !.handler = "handleDeletePage", !.pageId = pageId,
                       !.previousPages = pages,
                       !.previousSelectedPageId = sel]
       IN /\ Commit(updatedPages, TRUE, sel, blocks, error)
          /\ calls' = Dispatched(call)
    /\ opCount' = opCount + 1
    /\ ev' = [Event("handleDeletePage") EXCEPT !.id = pageId]
    /\ UNCHANGED <<pagesLoading, pagesError, idsDrawn, titleVars,
                   sidebarEditVars, sidebarDragVars, notPage>>

\* handleDeletePage(pageId), window.confirm accepted in the sidebar
handleDeletePage(pageId) ==
    /\ Quiet
    /\ pageId \in Ids(pages)
    /\ CanDispatch
    /\ LET updatedPages == FilterOut(pages, pageId)
           sel == IF selectedPageId = pageId
                  THEN (IF Len(updatedPages) > 0 THEN updatedPages[1].id ELSE Nil)
                  ELSE selectedPageId
           call == [NoCall EXCEPT !.op = "deletePage",
                       !.handler = "handleDeletePage", !.pageId = pageId,
                       !.previousPages = pages,
                       !.previousSelectedPageId = selectedPageId]
       IN /\ Commit(updatedPages, TRUE, sel, blocks, error)
          /\ calls' = Dispatched(call)
    /\ opCount' = opCount + 1
    /\ ev' = [Event("handleDeletePage") EXCEPT !.id = pageId]
    /\ UNCHANGED <<pagesLoading, pagesError, idsDrawn, titleVars,
                   sidebarEditVars, sidebarDragVars, notPage>>

\* handleReorderPages(newPages)
ReorderPages(newPages) ==
    LET call == [NoCall EXCEPT !.op = "putPages",
                    !.handler = "handleReorderPages",
                    !.list = JsonPages(newPages), !.previousPages = pages]
    IN /\ CanDispatch
       /\ Commit(newPages, TRUE, selectedPageId, blocks, error)
       /\ calls' = Dispatched(call)
       /\ opCount' = opCount + 1
       /\ UNCHANGED <<pagesLoading, pagesError>>

\* ------------------------------------------------------------------------
\* Sidebar
\* ------------------------------------------------------------------------

notSidebar == <<titleVars, notPage>>

\* Sidebar handleDoubleClick(pageId, currentTitle)
handleDoubleClick(pageId) ==
    /\ Gesture
    /\ pageId \in Ids(pages)
    /\ editingPageId' = pageId
    /\ editingTitle' = FindPage(pages, pageId).title
    /\ renameError' = Nil
    /\ ev' = [Event("handleDoubleClick") EXCEPT !.id = pageId]
    /\ UNCHANGED <<homeVars, calls, opCount, idsDrawn, sidebarDragVars,
                   notSidebar>>

\* Sidebar handleTitleChange
handleTitleChange(value) ==
    /\ editingPageId # Nil /\ value # editingTitle
    /\ editingTitle' = value
    /\ ev' = [Event("handleTitleChange") EXCEPT !.title = value]
    /\ UNCHANGED <<homeVars, calls, opCount, idsDrawn, editingPageId,
                   renameError, sidebarDragVars, notSidebar>>

\* Sidebar handleTitleCancel (Escape)
handleTitleCancel ==
    /\ editingPageId # Nil
    /\ editingPageId' = Nil
    /\ editingTitle' = <<>>
    /\ renameError' = Nil
    /\ ev' = Event("handleTitleCancel")
    /\ UNCHANGED <<homeVars, calls, opCount, idsDrawn, sidebarDragVars,
                   notSidebar>>

\* Variant of TitleUnchanged that never finds the title unchanged
TitleAlwaysChanged(pl, pageId, trimmedTitle) == FALSE

\* currentPage && trimmedTitle === currentPage.title
TitleUnchanged(pl, pageId, trimmedTitle) ==
    /\ FindIndex(pl, pageId) # -1
    /\ trimmedTitle = FindPage(pl, pageId).title

\* Sidebar handleTitleSave(pageId) (Enter or blur) of the page being edited
handleTitleSave ==
    LET pageId == editingPageId
        trimmedTitle == Trim(editingTitle)
        unchanged == TitleUnchanged(pages, pageId, trimmedTitle)
        renames == trimmedTitle # <<>> /\ ~unchanged
        awaits == renames /\ ~RenameRejected(pageId, trimmedTitle)
    IN /\ editingPageId # Nil
       /\ IF renames
          THEN RenamePage("handleTitleSave", pageId, trimmedTitle)
          ELSE UNCHANGED <<homeVars, calls, opCount>>
       /\ IF awaits
          THEN UNCHANGED sidebarEditVars
          ELSE /\ editingPageId' = Nil
               /\ editingTitle' = <<>>
               /\ renameError' = IF trimmedTitle = <<>> THEN renameError ELSE Nil
       /\ ev' = [Event("handleTitleSave") EXCEPT
                    !.id = pageId, !.title = editingTitle]
       /\ UNCHANGED <<idsDrawn, sidebarDragVars, notSidebar>>

\* Sidebar handleDragStart(pageId)
SidebarDragStart(pageId) ==
    /\ Gesture
    /\ pageId \in Ids(pages)
    /\ draggedPageId' = pageId
    /\ ev' = [Event("Sidebar.handleDragStart") EXCEPT !.id = pageId]
    /\ UNCHANGED <<homeVars, calls, opCount, idsDrawn, dragOverPageId,
                   sidebarEditVars, notSidebar>>

\* Sidebar handleDragEnd
SidebarDragEnd ==
    /\ draggedPageId # Nil
    /\ draggedPageId' = Nil
    /\ dragOverPageId' = Nil
    /\ ev' = Event("Sidebar.handleDragEnd")
    /\ UNCHANGED <<homeVars, calls, opCount, idsDrawn, sidebarEditVars,
                   notSidebar>>

\* Sidebar handleDragOver(e, pageId)
SidebarDragOver(pageId) ==
    /\ pageId \in Ids(pages)
    /\ draggedPageId # Nil /\ draggedPageId # pageId
    /\ dragOverPageId # pageId
    /\ dragOverPageId' = pageId
    /\ ev' = [Event("Sidebar.handleDragOver") EXCEPT !.id = pageId]
    /\ UNCHANGED <<homeVars, calls, opCount, idsDrawn, draggedPageId,
                   sidebarEditVars, notSidebar>>

\* Sidebar handleDragLeave
SidebarDragLeave ==
    /\ dragOverPageId # Nil
    /\ dragOverPageId' = Nil
    /\ ev' = Event("Sidebar.handleDragLeave")
    /\ UNCHANGED <<homeVars, calls, opCount, idsDrawn, draggedPageId,
                   sidebarEditVars, notSidebar>>

\* Variant of SidebarReorder that puts the dragged page in front of the
\* target page
SidebarReorderBeforeTarget(pl, draggedIndex, targetIndex) ==
    SpliceInsert(SpliceRemove(pl, draggedIndex),
                 IF draggedIndex < targetIndex THEN targetIndex - 1
                 ELSE targetIndex,
                 pl[draggedIndex + 1])

\* const [draggedPage] = reorderedPages.splice(draggedIndex, 1);
\* reorderedPages.splice(targetIndex, 0, draggedPage)
SidebarReorder(pl, draggedIndex, targetIndex) ==
    SpliceInsert(SpliceRemove(pl, draggedIndex), targetIndex, pl[draggedIndex + 1])

\* Sidebar handleDrop(targetPageId)
SidebarDrop(targetPageId) ==
    LET draggedIndex == FindIndex(pages, draggedPageId)
        targetIndex == FindIndex(pages, targetPageId)
        rejected == \/ draggedPageId = Nil
                    \/ draggedPageId = targetPageId
                    \/ draggedIndex = -1
                    \/ targetIndex = -1
    IN /\ targetPageId \in Ids(pages)
       \* a drop without a page drag: something else is dropped on the item
       /\ draggedPageId # Nil \/ Gesture
       /\ draggedPageId' = Nil
       /\ dragOverPageId' = Nil
       /\ IF rejected
          THEN UNCHANGED <<homeVars, calls, opCount>>
          ELSE ReorderPages(SidebarReorder(pages, draggedIndex, targetIndex))
       /\ ev' = [Event("Sidebar.handleDrop") EXCEPT
                    !.id = draggedPageId, !.id2 = targetPageId,
                    !.outcome = IF rejected THEN "rejected" ELSE "accepted"]
       /\ UNCHANGED <<idsDrawn, sidebarEditVars, notSidebar>>

\* ------------------------------------------------------------------------
\* Block: the edit form and inline editing.  ImageModal: the confirm button
\* ------------------------------------------------------------------------

Digits == <<"0", "1", "2", "3", "4", "5", "6", "7", "8", "9">>
IsDigit(c) == \E d \in 1..Len(Digits) : Digits[d] = c
DigitValue(c) == (CHOOSE d \in 1..Len(Digits) : Digits[d] = c) - 1

\* The value of the digits cs begins with, after the digits read so far
RECURSIVE LeadingDigits(_, _)
LeadingDigits(cs, acc) ==
    IF cs = <<>> \/ ~IsDigit(Head(cs)) THEN acc
    ELSE LeadingDigits(Tail(cs), acc * 10 + DigitValue(Head(cs)))

\* parseInt(cs): leading white space and a sign are skipped, the digits up
\* to the first other character are read, and there is no number (NaN) when
\* there is no digit to read
ParseInt(cs) ==
    LET t == TrimStart(cs)
        signed == t # <<>> /\ Head(t) \in {"-", "+"}
        body == IF signed THEN Tail(t) ELSE t
    IN IF body = <<>> \/ ~IsDigit(Head(body)) THEN NaN
       ELSE IF signed /\ Head(t) = "-" THEN Num(0 - LeadingDigits(body, 0))
       ELSE Num(LeadingDigits(body, 0))

\* isNaN(x) || x <= 0 for the result of parseInt
NotPositive(x) == x.k = "nan" \/ LeqZero(x)

\* What the fields of the edit form hold when it is submitted
FormInputs ==
    {[text |-> text, variant |-> "h3", url |-> url, width |-> width,
      height |-> <<"2", "0", "0">>] :
        text \in {<<" ", "z", " ">>},
        url \in {<<>>, <<" ">>, FTP \o XPNG, HTTP \o XPNG},
        width \in {<<>>, <<"0">>, <<"-", "5">>, <<"3", "0", "0">>}}

BlockOf(id) == blocks[FindIndex(blocks, id) + 1]

notBlock == <<dragVars, menuVars, selectVars, titleVars, sidebarEditVars,
              sidebarDragVars, serverVars, idsDrawn, inFlightLimit,
              validatorVars,
              imageModal>>

\* Block handleEdit of block id; the dimension detection of an image block
\* has settled.  One edit form is followed at a time.
handleEdit(id) ==
    /\ Gesture /\ BlocksRendered /\ id \in Ids(blocks)
    /\ editingBlockId \notin Ids(blocks)
    /\ editingBlockId' = id
    /\ isSaving' = FALSE
    /\ blockError' = Nil
    /\ ev' = [Event("handleEdit") EXCEPT !.id = id]
    /\ UNCHANGED <<homeVars, calls, opCount, notBlock>>

\* Block handleCancel; the button is disabled while saving
handleCancel ==
    /\ BlocksRendered /\ editingBlockId \in Ids(blocks) /\ ~isSaving
    /\ editingBlockId' = Nil
    /\ blockError' = Nil
    /\ ev' = [Event("handleCancel") EXCEPT !.id = editingBlockId]
    /\ UNCHANGED <<isSaving, homeVars, calls, opCount, notBlock>>

\* The updates handleSave builds from the fields of the form of block
SaveUpdates(block, fields) ==
    IF block.type = "text"
    THEN [type |-> "text", content |-> Str(Trim(fields.text)),
          styles |-> TextStyles(fields.variant)]
    ELSE [type |-> "image", content |-> Str(fields.url),
          styles |-> Styles("object", Undef, ParseInt(fields.width),
                            ParseInt(fields.height))]

\* The error handleSave shows instead of saving ("ok": none)
SaveError(block, fields) ==
    LET updates == SaveUpdates(block, fields)
    IN IF block.type = "image" /\ (fields.width = <<>> \/ fields.height = <<>>)
       THEN "Width and height are required"
       ELSE IF block.type = "image" /\ NotPositive(ParseInt(fields.width))
       THEN "Width must be a positive number"
       ELSE IF block.type = "image" /\ NotPositive(ParseInt(fields.height))
       THEN "Height must be a positive number"
       ELSE validateBlockEdit(updates.type, updates.content, updates.styles)

\* Block handleSave (the form is submitted; its buttons are disabled while
\* saving), up to its await of onUpdate = handleUpdateBlock
handleSave(fields) ==
    /\ BlocksRendered /\ editingBlockId \in Ids(blocks) /\ ~isSaving
    /\ LET block == BlockOf(editingBlockId)
           failure == SaveError(block, fields)
       IN /\ ev' = [Event("handleSave") EXCEPT
                       !.id = editingBlockId,
                       !.outcome = IF failure = "ok" THEN "accepted"
                                   ELSE "rejected"]
          /\ IF failure # "ok"
             THEN /\ blockError' = failure
                  /\ UNCHANGED <<editingBlockId, isSaving, homeVars, calls,
                                 opCount>>
             ELSE /\ blockError' = Nil
                  /\ isSaving' = TRUE
                  /\ updatePageBlocks("handleSave", selectedPageId,
                                      MapUpdate(blocks, editingBlockId,
                                                SaveUpdates(block, fields)),
                                      Nil)
                  /\ UNCHANGED <<editingBlockId, pagesLoading, pagesError>>
    /\ UNCHANGED notBlock

\* Texts typed into a text block
InlineInputs == {<<"x">>, <<" ", "w">>, <<"/", "h", "1">>}

\* Block handleInlineBlur of text block id holding the typed text
handleInlineBlur(id, inlineContent) ==
    /\ Quiet /\ BlocksRendered /\ id \in Ids(blocks)
    /\ BlockOf(id).type = "text"
    /\ LET block == BlockOf(id)
           currentContent == Trim(inlineContent)
           updates == [type |-> "text", content |-> Str(currentContent),
                       styles |-> block.styles]
           failure == validateBlockEdit(updates.type, updates.content,
                                        updates.styles)
       IN /\ Str(currentContent) # block.content
          /\ ~StartsWith(currentContent, <<"/">>)
          /\ ev' = [Event("handleInlineBlur") EXCEPT
                       !.id = id,
                       !.outcome = IF failure = "ok" THEN "accepted"
                                   ELSE "rejected"]
          /\ IF failure # "ok"
             THEN UNCHANGED <<homeVars, calls, opCount>>
             ELSE /\ updatePageBlocks("handleInlineBlur", selectedPageId,
                                      MapUpdate(blocks, id, updates), Nil)
                  /\ UNCHANGED <<pagesLoading, pagesError>>
    /\ UNCHANGED <<formVars, notBlock>>

\* The slash commands
SlashH1 == <<"/", "h", "1">>
SlashH2 == <<"/", "h", "2">>
SlashH3 == <<"/", "h", "3">>
SlashParagraph == <<"/", "p", "a", "r", "a", "g", "r", "a", "p", "h">>
SlashP == <<"/", "p">>
SlashImage == <<"/", "i", "m", "a", "g", "e">>
SlashImg == <<"/", "i", "m", "g">>

\* String.prototype.indexOf(' '), 0-based, -1 when absent
IndexOfSpace(cs) ==
    IF \E i \in 1..Len(cs) : cs[i] = " "
    THEN (CHOOSE i \in 1..Len(cs) :
              cs[i] = " " /\ \A j \in 1..(i - 1) : cs[j] # " ") - 1
    ELSE -1

NoCommand == [kind |-> "none", variant |-> "", remainingContent |-> <<>>]

\* Block detectSlashCommand
detectSlashCommand(text) ==
    LET trimmed == Trim(text)
        spaceIndex == IndexOfSpace(trimmed)
        command == IF spaceIndex = -1 THEN trimmed
                   ELSE SubSeq(trimmed, 1, spaceIndex)
        remainder == IF spaceIndex = -1 THEN <<>>
                     ELSE Trim(SubSeq(trimmed, spaceIndex + 2, Len(trimmed)))
        to(variant) == [kind |-> "variant", variant |-> variant,
                        remainingContent |-> remainder]
    IN IF ~StartsWith(trimmed, <<"/">>) THEN NoCommand
       ELSE IF command = SlashH1 THEN to("h1")
       ELSE IF command = SlashH2 THEN to("h2")
       ELSE IF command = SlashH3 THEN to("h3")
       ELSE IF command \in {SlashParagraph, SlashP} THEN to("paragraph")
       ELSE IF command \in {SlashImage, SlashImg}
       THEN [kind |-> "image", variant |-> "", remainingContent |-> remainder]
       ELSE NoCommand

\* Texts a text block holds when Enter is pressed in it
EnterInputs ==
    {<<"x">>, <<"q", " ">>, SlashH2 \o <<" ", "t">>, SlashP, SlashImg}

\* Block handleInlineKeyDown for Enter without Shift in text block id that
\* holds the typed text, up to its first await
handleInlineKeyDown(id, inlineContent) ==
    /\ Gesture /\ BlocksRendered /\ id \in Ids(blocks)
    /\ BlockOf(id).type = "text"
    /\ LET block == BlockOf(id)
           command == detectSlashCommand(Trim(inlineContent))
           slashUpdates == [type |-> "text",
                            content |-> Str(command.remainingContent),
                            styles |-> TextStyles(command.variant)]
           saveUpdates == [type |-> "text", content |-> Str(inlineContent),
                           styles |-> block.styles]
           changed == Str(inlineContent) # block.content
           newBlockId == NextUUID
           newBlock == Block(newBlockId, "text", Str(<<>>),
                             TextStyles("paragraph"))
           outcome == IF command.kind # "none" THEN command.kind
                      ELSE IF changed THEN "save" ELSE "insert"
       IN /\ ev' = [Event("handleInlineKeyDown") EXCEPT
                       !.id = id, !.title = inlineContent,
                       !.outcome = outcome]
          /\ CASE outcome = "image" ->
                    /\ isImageModalOpen' = TRUE
                    /\ imageModalContext' = Context(id, "after")
                    /\ UNCHANGED <<homeVars, dragVars, isBlockMenuOpen,
                                   blockMenuContext, showEmptyBlock,
                                   selectVars, calls, idsDrawn, opCount>>
               [] outcome = "variant" ->
                    /\ IF validateBlockEdit(slashUpdates.type,
                                            slashUpdates.content,
                                            slashUpdates.styles) # "ok"
                       THEN UNCHANGED <<homeVars, calls, opCount>>
                       ELSE /\ updatePageBlocks("handleInlineKeyDown",
                                                selectedPageId,
                                                MapUpdate(blocks, id,
                                                          slashUpdates), Nil)
                            /\ UNCHANGED <<pagesLoading, pagesError>>
                    /\ UNCHANGED <<dragVars, menuVars, selectVars, idsDrawn>>
               [] outcome = "save" ->
                    /\ updatePageBlocksThen(
                          "handleInlineKeyDown", selectedPageId,
                          MapUpdate(blocks, id, saveUpdates), Nil,
                          [step |-> "insert", blockId |-> id,
                           typed |-> inlineContent, pages |-> pages,
                           blocks |-> blocks,
                           selectedPageId |-> selectedPageId])
                    /\ UNCHANGED <<pagesLoading, pagesError, dragVars,
                                   menuVars, selectVars, idsDrawn>>
               [] outcome = "insert" ->
                    /\ idsDrawn < Len(UUIDS)
                    /\ updatePageBlocks("handleInsertBlockAfter",
                                        selectedPageId,
                                        InsertAfterBlock(blocks, id, newBlock),
                                        newBlockId)
                    /\ idsDrawn' = idsDrawn + 1
                    /\ UNCHANGED <<pagesLoading, pagesError, dragVars,
                                   menuVars, selectVars>>
    /\ UNCHANGED notHome

\* What the fields of the image modal hold when it is submitted
ModalInputs ==
    {[url |-> url, width |-> width, height |-> <<"4", "0", "0">>] :
        url \in {<<" ">>, FTP \o XPNG, <<" ">> \o HTTPS \o XPNG, HTTPS \o XPNG},
        width \in {<<>>, <<"0">>, <<"6", "0", "0">>}}

\* ImageModal validateUrl: the error text, or null
validateUrl(url) ==
    IF Trim(url) = <<>> THEN Nil
    ELSE IF ~StartsWith(url, HTTP) /\ ~StartsWith(url, HTTPS)
    THEN "Image URL must start with http:// or https://"
    ELSE Nil

\* !n || n <= 0 for the result of parseInt
FalsyOrNotPositive(x) == x.k = "nan" \/ x.n = 0 \/ LeqZero(x)

\* ImageModal handleConfirm: the form is submitted, which its submit button
\* allows only while url.trim() is not empty; onConfirm is
\* handleConfirmImageModal
handleConfirm(fields) ==
    /\ isImageModalOpen
    /\ Trim(fields.url) # <<>>
    /\ LET widthNum == ParseInt(fields.width)
           heightNum == ParseInt(fields.height)
       IN IF \/ validateUrl(fields.url) # Nil
             \/ FalsyOrNotPositive(widthNum)
             \/ FalsyOrNotPositive(heightNum)
          THEN /\ ev' = [Event("handleConfirm") EXCEPT !.outcome = "rejected"]
               /\ UNCHANGED <<homeVars, dragVars, menuVars, selectVars, calls,
                              idsDrawn, opCount, notHome>>
          ELSE handleConfirmImageModal(fields.url, widthNum.n, heightNum.n)

\* ------------------------------------------------------------------------
\* The calls in flight: the server's step and the client's continuation
\* ------------------------------------------------------------------------

\* The route a call reaches, applied to the stored files
Route(c) ==
    CASE c.op = "getPages" -> GetPages(pagesFile, blocksFile, clock)
      [] c.op = "postPage" -> PostPage(c.page, pagesFile, blocksFile)
      [] c.op = "putPage" -> PutPageById(c.pageId, c.page, pagesFile, blocksFile)
      [] c.op = "deletePage" -> DeletePageById(c.pageId, pagesFile, blocksFile)
      [] c.op = "putPages" -> PutPages(c.list, pagesFile, blocksFile)

\* The catch block of each route: the body of its 500 response
StorageErrorText(op) ==
    CASE op = "getPages" -> "Failed to read pages"
      [] op = "postPage" -> "Failed to create page"
      [] op = "putPage" -> "Failed to update page"
      [] op = "deletePage" -> "Failed to delete page"
      [] op = "putPages" -> "Failed to update pages"

Answered(c, r) ==
    [c EXCEPT !.stage = "response", !.status = r.status, !.errText = r.error,
              !.data = JsonPages(r.data)]

notServer == <<homeVars, dragVars, menuVars, selectVars, titleVars,
               sidebarEditVars, sidebarDragVars, formVars, idsDrawn, opCount,
               inFlightLimit, validatorVars,
               imageModal>>

\* The server handles the request of call i
ServerHandle(i) ==
    /\ i \in 1..Len(calls) /\ calls[i].stage = "request"
    /\ LET r == Route(calls[i])
       IN /\ calls' = [calls EXCEPT ![i] = Answered(calls[i], r)]
          /\ pagesFile' = r.pagesFile
          /\ blocksFile' = r.blocksFile
          /\ ev' = [Event("server") EXCEPT !.call = Answered(calls[i], r)]
    /\ UNCHANGED <<clock, notServer>>

\* The file system fails under the route of call i: its catch block answers
ServerStorageError(i) ==
    /\ i \in 1..Len(calls) /\ calls[i].stage = "request"
    /\ calls' = [calls EXCEPT ![i] =
                    Answered(calls[i],
                             Response(500, StorageErrorText(calls[i].op), <<>>,
                                      pagesFile, blocksFile))]
    /\ ev' = [Event("storageError") EXCEPT !.call = calls[i]]
    /\ UNCHANGED <<serverVars, notServer>>

\* A gateway in front of the server answers call i with a failure status
\* and a body that is not JSON
GatewayError(i) ==
    /\ i \in 1..Len(calls) /\ calls[i].stage = "request"
    /\ calls' = [calls EXCEPT ![i] =
                    [@ EXCEPT !.stage = "response", !.status = 502,
                              !.errText = Nil, !.data = <<>>]]
    /\ ev' = [Event("gatewayError") EXCEPT !.call = calls[i]]
    /\ UNCHANGED <<serverVars, notServer>>

\* response.ok
Ok(status) == status >= 200 /\ status <= 299

\* The message of the TypeError a rejected fetch throws
NetworkErrorMessage == "Failed to fetch"

BlockHandlers ==
    {"handleSelectBlockType", "handleConfirmImageModal",
     "handleInsertBlockAfter", "handleCreateFromEmpty", "handleDrop",
     "handleUpdateBlock", "handleDeleteBlock", "handleSave",
     "handleInlineBlur", "handleInlineKeyDown"}
InsertHandlers ==
    {"handleSelectBlockType", "handleConfirmImageModal",
     "handleInsertBlockAfter"}
RenameHandlers == {"handleRenamePage", "handleTitleSave", "handlePageTitleSave"}

Without(i) == [j \in 1..(Len(calls) - 1) |-> IF j < i THEN calls[j] ELSE calls[j + 1]]

\* The code after the await of a call that succeeded
Succeeded(c) ==
    /\ IF c.handler = "fetchPages"
       THEN /\ Commit(c.data, TRUE, selectedPageId, blocks, error)
            /\ pagesLoading' = FALSE
            /\ pagesError' = Nil
       ELSE UNCHANGED homeVars
    /\ focusBlockId' = IF c.handler \in InsertHandlers THEN c.newId
                       ELSE focusBlockId
    /\ selectedBlockId' = IF c.handler = "handleDeleteBlock" THEN Nil
                          ELSE selectedBlockId
    /\ IF c.handler = "handleTitleSave"
       THEN editingPageId' = Nil /\ editingTitle' = <<>> /\ renameError' = Nil
       ELSE UNCHANGED sidebarEditVars
    /\ IF c.handler = "handlePageTitleSave"
       THEN /\ isEditingPageTitle' = FALSE
            /\ editingPageTitle' = <<>>
            /\ pageTitleError' = Nil
       ELSE UNCHANGED titleVars
    /\ IF c.handler = "handleSave"
       THEN editingBlockId' = Nil /\ isSaving' = FALSE /\ UNCHANGED blockError
       ELSE UNCHANGED formVars

\* updatePageBlocks: the message of the error its try block throws.  For a
\* failure status it is the error text of the response body, or the default
\* text when the body cannot be read or has none; a rejected fetch throws
\* its own error.
PersistErrorMessage(c, thrown) ==
    IF thrown # Nil THEN thrown
    ELSE IF c.errText = Nil THEN "Failed to persist page changes"
    ELSE c.errText

\* The handlers whose catch block passes a message to Home's setError.  The
\* block list is rendered only while error is null, so the render of that
\* message unmounts every Block; the load-blocks effect, which the rollback's
\* setPages triggers, then clears error (or sets 'Page not found') and the
\* Blocks that mount again start from their initial state.  The setIsSaving
\* and setError of handleSave's catch block reach the unmounted Block only.
ErrorBannerHandlers ==
    BlockHandlers \cup {"handleDeletePage", "handleReorderPages"}

\* The catch blocks of a call that failed; thrown is the message of the
\* error the fetch threw, or Nil when the response had a failure status
Failed(c, thrown) ==
    LET rejectedFetch == thrown # Nil
        message(default) == IF rejectedFetch THEN thrown ELSE default
    IN /\ CASE c.handler = "fetchPages" ->
                 /\ pagesError' = message("Failed to fetch pages")
                 /\ pagesLoading' = FALSE
                 /\ UNCHANGED <<pages, selectedPageId, blocks, error>>
            [] c.handler \in BlockHandlers ->
                 /\ Commit(c.previousPages, TRUE, selectedPageId,
                           c.previousBlocks, PersistErrorMessage(c, thrown))
                 /\ UNCHANGED <<pagesLoading, pagesError>>
            [] c.handler = "handleCreatePage" ->
                 /\ IF rejectedFetch
                    THEN UNCHANGED <<pages, selectedPageId, blocks, error>>
                    ELSE Commit(FilterOut(pages, c.newId), TRUE, Nil, blocks,
                                error)
                 /\ UNCHANGED <<pagesLoading, pagesError>>
            [] c.handler \in RenameHandlers ->
                 /\ Commit(c.previousPages, TRUE, selectedPageId, blocks, error)
                 /\ UNCHANGED <<pagesLoading, pagesError>>
            [] c.handler = "handleDeletePage" ->
                 /\ Commit(c.previousPages, TRUE, c.previousSelectedPageId,
                           blocks, message("Failed to delete page"))
                 /\ UNCHANGED <<pagesLoading, pagesError>>
            [] c.handler = "handleReorderPages" ->
                 /\ Commit(c.previousPages, TRUE, selectedPageId, blocks,
                           message("Failed to reorder pages"))
                 /\ UNCHANGED <<pagesLoading, pagesError>>
       /\ IF c.handler = "handleTitleSave"
          THEN /\ renameError' = message("Failed to rename page")
               /\ UNCHANGED <<editingPageId, editingTitle>>
          ELSE UNCHANGED sidebarEditVars
       /\ IF c.handler = "handlePageTitleSave"
          THEN /\ pageTitleError' = message("Failed to rename page")
               /\ UNCHANGED <<isEditingPageTitle, editingPageTitle>>
          ELSE UNCHANGED titleVars
       /\ IF c.handler \in ErrorBannerHandlers
          THEN /\ editingBlockId' = Nil
               /\ isSaving' = FALSE
               /\ blockError' = Nil
          ELSE UNCHANGED formVars
       /\ UNCHANGED selectVars

notClient == <<dragVars, menuVars, sidebarDragVars, serverVars, idsDrawn,
               opCount, inFlightLimit, validatorVars,
               imageModal>>

\* Variant of SignalAborted for a fetchPages that does not read its signal
SignalIgnored(c) == FALSE

\* signal?.aborted, read by fetchPages before it sets state
SignalAborted(c) == c.aborted

\* The continuation of a call sets no state
Suppressed ==
    UNCHANGED <<homeVars, selectVars, titleVars, sidebarEditVars, formVars>>

\* The call of handleInlineKeyDown's onUpdate succeeded, and
\* handleInlineKeyDown goes on to onInsertBlockAfter(block.id, 'text',
\* 'paragraph'): the handleInsertBlockAfter of the render the key was pressed
\* in, up to its await.  The key press is one operation of the user.
EnterContinues(i) ==
    /\ i \in 1..Len(calls) /\ calls[i].stage = "response"
    /\ Ok(calls[i].status) /\ calls[i].after.step = "insert"
    /\ idsDrawn < Len(UUIDS)
    /\ LET c == calls[i]
           closure == c.after
           newBlockId == NextUUID
           newBlock == Block(newBlockId, "text", Str(<<>>),
                             TextStyles("paragraph"))
           updatedBlocks == InsertAfterBlock(closure.blocks, closure.blockId,
                                             newBlock)
           updatedPages == MapPageBlocks(closure.pages, closure.selectedPageId,
                                         updatedBlocks)
           found == FindIndex(updatedPages, closure.selectedPageId) # -1
           call == [NoCall EXCEPT
                       !.op = "putPage", !.handler = "handleInsertBlockAfter",
                       !.pageId = closure.selectedPageId,
                       !.page = JsonPage(FindPage(updatedPages,
                                                  closure.selectedPageId)),
                       !.previousPages = SnapshotPages(closure.pages,
                                                       updatedPages),
                       !.previousBlocks = SnapshotBlocks(closure.blocks,
                                                         updatedBlocks),
                       !.newId = newBlockId,
                       !.after = [NoAfter EXCEPT !.blockId = closure.blockId,
                                                 !.typed = closure.typed]]
       IN /\ Commit(updatedPages, TRUE, selectedPageId, updatedBlocks, error)
          /\ calls' = IF found THEN DispatchedOn(Without(i), call)
                      ELSE Without(i)
          /\ ev' = [Event("handleInlineKeyDown:insert") EXCEPT
                       !.call = c, !.id = closure.blockId, !.id2 = newBlockId]
    /\ idsDrawn' = idsDrawn + 1
    /\ UNCHANGED <<pagesLoading, pagesError, dragVars, menuVars, selectVars,
                   titleVars, sidebarEditVars, sidebarDragVars, formVars,
                   serverVars, opCount, inFlightLimit, validatorVars,
                   imageModal>>

\* The response of call i arrives and the awaiting handler continues
ClientResolve(i) ==
    /\ i \in 1..Len(calls) /\ calls[i].stage = "response"
    /\ ~(Ok(calls[i].status) /\ calls[i].after.step = "insert")
    /\ IF SignalAborted(calls[i]) THEN Suppressed
       ELSE IF Ok(calls[i].status) THEN Succeeded(calls[i])
       ELSE Failed(calls[i], Nil)
    /\ calls' = Without(i)
    /\ ev' = [Event("resolve") EXCEPT
                 !.call = calls[i],
                 !.outcome = IF Ok(calls[i].status) THEN "ok" ELSE "status",
                 !.errorSet = IF ~Ok(calls[i].status)
                                 /\ calls[i].handler \in BlockHandlers
                              THEN PersistErrorMessage(calls[i], Nil)
                              ELSE Nil]
    /\ UNCHANGED notClient

\* The fetch of call i rejects: the request never reached the server, or
\* its response never reached the client
NetworkFailure(i) ==
    /\ i \in 1..Len(calls)
    /\ IF SignalAborted(calls[i]) THEN Suppressed
       ELSE Failed(calls[i], NetworkErrorMessage)
    /\ calls' = Without(i)
    /\ ev' = [Event("resolve") EXCEPT
                 !.call = calls[i], !.outcome = "network",
                 !.errorSet = IF calls[i].handler \in BlockHandlers
                              THEN PersistErrorMessage(calls[i],
                                                       NetworkErrorMessage)
                              ELSE Nil]
    /\ UNCHANGED notClient

\* ------------------------------------------------------------------------
\* Specifications
\* ------------------------------------------------------------------------

\* The documents the server holds when the client starts
B1 == Block("b1", "text", Str(<<"x">>), TextStyles("paragraph"))
B2 == Block("b2", "text", Str(<<"y">>), TextStyles("h1"))
B3 == Block("b3", "image", Str(HTTPS \o XPNG), ImageStyles(600, 400))
B4 == Block("b4", "text", Str(<<>>), TextStyles("h2"))
P1 == Page("p1", <<"A">>, <<B1, B2, B3>>)
P2 == Page("p2", <<"B">>, <<B4>>)
StoredPages == <<P1, P2>>

\* useState initial values of Home and Sidebar
InitialUI ==
    /\ draggedBlockId = Nil /\ dragOverBlockId = Nil /\ dropPosition = Nil
    /\ isBlockMenuOpen = FALSE /\ blockMenuContext = BottomContext
    /\ isImageModalOpen = FALSE /\ imageModalContext = BottomContext
    /\ focusBlockId = Nil /\ selectedBlockId = Nil /\ showEmptyBlock = FALSE
    /\ isEditingPageTitle = FALSE /\ editingPageTitle = <<>>
    /\ pageTitleError = Nil
    /\ editingPageId = Nil /\ editingTitle = <<>> /\ renameError = Nil
    /\ draggedPageId = Nil /\ dragOverPageId = Nil
    /\ editingBlockId = Nil /\ isSaving = FALSE /\ blockError = Nil

NoCandidate ==
    [type |-> "", content |-> Undef, styles |-> Styles("undefined", Undef, Undef, Undef)]

Idle ==
    /\ idsDrawn = 0 /\ opCount = 0 /\ ev = NoEvent /\ clock = 1
    /\ candidate = NoCandidate /\ verdictInput = "none" /\ verdictEdit = "none"
    /\ imageModal = InitialModal

\* The client once its first fetch of the stored pages has resolved
Loaded(stored) ==
    /\ pages = stored
    /\ selectedPageId = AutoSelect(stored, Nil)
    /\ blocks = LoadBlocks(stored, AutoSelect(stored, Nil), <<>>, Nil).blocks
    /\ error = Nil /\ pagesLoading = FALSE /\ pagesError = Nil
    /\ calls = <<>>
    /\ pagesFile = ArrayFile(stored) /\ blocksFile = AbsentFile

InitBlocks ==
    InitialUI /\ Idle /\ Loaded(StoredPages) /\ inFlightLimit = MaxInFlightBlocks

BlockIds == {"b1", "b2", "b3", "b4"} \cup {UUIDS[i] : i \in 1..Len(UUIDS)}

NextBlocks ==
    \/ \E id \in BlockIds :
          \/ handleOpenMenuForBlock(id)
          \/ InsertImageAfter(id)
          \/ handleDragStart(id)
          \/ handleDragLeave(id)
          \/ handleDrop(id)
          \/ handleDeleteBlock(id)
          \/ \E variant \in VariantInputs : handleInsertBlockAfter(id, variant)
          \/ \E position \in Sides : handleDragOver(id, position)
          \/ \E updates \in UpdateInputs : handleUpdateBlock(id, updates)
    \/ handleEmptyAreaClick
    \/ handleOpenMenuForEmpty
    \/ handleCloseMenu
    \/ handleCloseImageModal
    \/ SelectImageType
    \/ CreateImageFromEmpty
    \/ handleDragEnd
    \/ \E variant \in VariantInputs : handleSelectBlockType(variant)
    \/ handleConfirmImageModal(HTTPS \o XPNG, 600, 400)
    \/ \E content \in ContentInputs, variant \in VariantInputs :
          handleCreateFromEmpty(content, variant)
    \/ \E i \in 1..MaxInFlight : ServerHandle(i)
    \/ \E i \in 1..MaxInFlight : ServerStorageError(i)
    \/ \E i \in 1..MaxInFlight : ClientResolve(i)
    \/ \E i \in 1..MaxInFlight : NetworkFailure(i)

SpecBlocks == InitBlocks /\ [][NextBlocks]_vars

\* The loaded block editor with the edit form of a block, inline editing
\* and the image modal
InitForm ==
    InitialUI /\ Idle /\ Loaded(StoredPages) /\ inFlightLimit = MaxInFlightBlocks

NextForm ==
    \/ \E id \in BlockIds :
          \/ handleEdit(id)
          \/ InsertImageAfter(id)
          \/ \E inlineContent \in InlineInputs : handleInlineBlur(id, inlineContent)
    \/ handleCancel
    \/ \E fields \in FormInputs : handleSave(fields)
    \/ handleCloseImageModal
    \/ \E fields \in ModalInputs : handleConfirm(fields)
    \/ \E i \in 1..MaxInFlight : ServerHandle(i)
    \/ \E i \in 1..MaxInFlight : ServerStorageError(i)
    \/ \E i \in 1..MaxInFlight : GatewayError(i)
    \/ \E i \in 1..MaxInFlight : ClientResolve(i)
    \/ \E i \in 1..MaxInFlight : NetworkFailure(i)

SpecForm == InitForm /\ [][NextForm]_vars

\* The loaded block editor with the Enter key in a text block (content
\* edits, slash commands, new paragraphs), the image modal and the deletion
\* of blocks, two calls in flight
InitEnter ==
    InitialUI /\ Idle /\ Loaded(StoredPages) /\ inFlightLimit = MaxInFlight

NextEnter ==
    \/ \E id \in BlockIds :
          \/ handleDeleteBlock(id)
          \/ \E inlineContent \in EnterInputs :
                handleInlineKeyDown(id, inlineContent)
    \/ handleCloseImageModal
    \/ \E fields \in ModalInputs : handleConfirm(fields)
    \/ \E i \in 1..MaxInFlight : ServerHandle(i)
    \/ \E i \in 1..MaxInFlight : ServerStorageError(i)
    \/ \E i \in 1..MaxInFlight : EnterContinues(i)
    \/ \E i \in 1..MaxInFlight : ClientResolve(i)
    \/ \E i \in 1..MaxInFlight : NetworkFailure(i)

SpecEnter == InitEnter /\ [][NextEnter]_vars

\* The loaded block editor and the selection of a block
InitSelect ==
    InitialUI /\ Idle /\ Loaded(StoredPages) /\ inFlightLimit = MaxInFlightBlocks

NextSelect ==
    \/ \E id \in BlockIds :
          \/ handleSelectBlock(id)
          \/ handleDragStart(id)
          \/ handleDrop(id)
          \/ handleDeleteBlock(id)
          \/ \E position \in Sides : handleDragOver(id, position)
    \/ \E target \in ClickTargets : handleMainClick(target)
    \/ handleEmptyAreaClick
    \/ handleDragEnd
    \/ \E i \in 1..MaxInFlight : ServerHandle(i)
    \/ \E i \in 1..MaxInFlight : ServerStorageError(i)
    \/ \E i \in 1..MaxInFlight : ClientResolve(i)
    \/ \E i \in 1..MaxInFlight : NetworkFailure(i)

SpecSelect == InitSelect /\ [][NextSelect]_vars

\* The loaded block editor with references to blocks that are not, or no
\* longer, in the list
InitStale ==
    InitialUI /\ Idle /\ Loaded(StoredPages) /\ inFlightLimit = MaxInFlightBlocks

NextStale ==
    \/ \E id \in BlockIds :
          \/ handleDragStart(id)
          \/ handleDrop(id)
          \/ DropOnRemovedBlock(id)
          \/ handleDeleteBlock(id)
          \/ DeleteUnknownBlock(id)
          \/ \E variant \in VariantInputs : handleInsertBlockAfter(id, variant)
          \/ \E position \in Sides : handleDragOver(id, position)
          \/ \E updates \in UpdateInputs : UpdateUnknownBlock(id, updates)
    \/ handleDragEnd
    \/ \E i \in 1..MaxInFlight : ServerHandle(i)
    \/ \E i \in 1..MaxInFlight : ServerStorageError(i)
    \/ \E i \in 1..MaxInFlight : ClientResolve(i)
    \/ \E i \in 1..MaxInFlight : NetworkFailure(i)

SpecStale == InitStale /\ [][NextStale]_vars

\* The application from its construction: the first fetch of the pages is in
\* flight, and the user works on pages and on the blocks of the selected page
FetchPagesCall ==
    [NoCall EXCEPT !.op = "getPages", !.handler = "fetchPages", !.alone = TRUE]

P3 == Page("p1", <<"A">>, <<B1, B2>>)
StoredAtStart == <<P3, P2>>

PromptInputs == {<<" ">>, <<" ", "C", " ">>}
RenameInputs == {<<"A", " ">>, <<"D">>}

Init ==
    /\ InitialUI /\ Idle
    /\ pages = <<>> /\ selectedPageId = Nil /\ blocks = <<>>
    /\ error = Nil /\ pagesLoading = TRUE /\ pagesError = Nil
    /\ calls = <<FetchPagesCall>>
    /\ pagesFile = ArrayFile(StoredAtStart) /\ blocksFile = AbsentFile
    /\ inFlightLimit = MaxInFlight

PageIds == {"p1", "p2"} \cup {UUIDS[i] : i \in 1..Len(UUIDS)}

\* The cleanup of the fetchPages effect (the component is torn down):
\* controller.abort()
EffectCleanup(i) ==
    /\ i \in 1..Len(calls)
    /\ calls[i].handler = "fetchPages" /\ ~calls[i].aborted
    /\ calls' = [calls EXCEPT ![i].aborted = TRUE]
    /\ ev' = [Event("cleanup") EXCEPT !.call = calls[i]]
    /\ UNCHANGED <<homeVars, dragVars, menuVars, selectVars, titleVars,
                   sidebarEditVars, sidebarDragVars, formVars, serverVars,
                   idsDrawn, opCount, inFlightLimit, validatorVars,
                   imageModal>>

\* The effect runs again (React mounts the component a second time in
\* development, keeping its state): a new fetchPages with its own controller
EffectMount ==
    /\ CanDispatch
    /\ \A i \in 1..Len(calls) :
          calls[i].handler = "fetchPages" => calls[i].aborted
    /\ Len(calls) > 0
    /\ calls' = Append(calls, FetchPagesCall)
    /\ opCount' = opCount + 1
    /\ ev' = Event("mount")
    /\ UNCHANGED <<homeVars, dragVars, menuVars, selectVars, titleVars,
                   sidebarEditVars, sidebarDragVars, formVars, serverVars,
                   idsDrawn, inFlightLimit, validatorVars,
                   imageModal>>

\* The fetch of the aborted call i rejects with an AbortError, which
\* fetchPages catches and ignores
AbortRejects(i) ==
    /\ i \in 1..Len(calls) /\ calls[i].aborted
    /\ calls' = Without(i)
    /\ ev' = [Event("resolve") EXCEPT !.call = calls[i], !.outcome = "abort"]
    /\ Suppressed
    /\ UNCHANGED notClient

\* The first fetch of the pages and the teardown of the component
InitTeardown ==
    /\ InitialUI /\ Idle
    /\ pages = <<>> /\ selectedPageId = Nil /\ blocks = <<>>
    /\ error = Nil /\ pagesLoading = TRUE /\ pagesError = Nil
    /\ calls = <<FetchPagesCall>>
    /\ pagesFile \in {AbsentFile, ArrayFile(<<>>), ArrayFile(StoredAtStart)}
    /\ blocksFile \in {AbsentFile, ArrayFile(<<B1, B2, B3>>)}
    /\ inFlightLimit = MaxInFlight

NextTeardown ==
    \/ EffectMount
    \/ \E i \in 1..MaxInFlight : EffectCleanup(i)
    \/ \E i \in 1..MaxInFlight : AbortRejects(i)
    \/ \E i \in 1..MaxInFlight : ServerHandle(i)
    \/ \E i \in 1..MaxInFlight : ServerStorageError(i)
    \/ \E i \in 1..MaxInFlight : GatewayError(i)
    \/ \E i \in 1..MaxInFlight : ClientResolve(i)
    \/ \E i \in 1..MaxInFlight : NetworkFailure(i)

SpecTeardown == InitTeardown /\ [][NextTeardown]_vars

Next ==
    \/ \E title \in PromptInputs : handleCreatePage(title)
    \/ \E pageId \in PageIds :
          \/ handleSelectPage(pageId)
          \/ handleDeletePage(pageId)
          \/ handleDoubleClick(pageId)
          \/ SidebarDragStart(pageId)
          \/ SidebarDragOver(pageId)
          \/ SidebarDrop(pageId)
    \/ \E value \in RenameInputs : handleTitleChange(value)
    \/ handleTitleSave
    \/ handleTitleCancel
    \/ SidebarDragLeave
    \/ SidebarDragEnd
    \/ \E id \in BlockIds :
          \/ handleDragStart(id)
          \/ handleDragOver(id, "after")
          \/ handleDrop(id)
          \/ handleDeleteBlock(id)
          \/ handleInsertBlockAfter(id, "paragraph")
          \/ \E updates \in UpdateInputs : handleUpdateBlock(id, updates)
    \/ handleDragEnd
    \/ \E i \in 1..MaxInFlight : ServerHandle(i)
    \/ \E i \in 1..MaxInFlight : ServerStorageError(i)
    \/ \E i \in 1..MaxInFlight : ClientResolve(i)
    \/ \E i \in 1..MaxInFlight : NetworkFailure(i)

Spec == Init /\ [][Next]_vars

\* The loaded application, its two title editors and the rename mutation
InitRename ==
    InitialUI /\ Idle /\ Loaded(StoredPages) /\ inFlightLimit = MaxInFlight

NextRename ==
    \/ \E pageId \in PageIds :
          \/ handleSelectPage(pageId)
          \/ handleDoubleClick(pageId)
          \/ \E newTitle \in TitleInputs : handleRenamePage(pageId, newTitle)
    \/ \E value \in TitleInputs : handleTitleChange(value)
    \/ handleTitleSave
    \/ handleTitleCancel
    \/ handlePageTitleClick
    \/ \E value \in TitleInputs : handlePageTitleChange(value)
    \/ handlePageTitleSave
    \/ handlePageTitleCancel
    \/ \E i \in 1..MaxInFlight : ServerHandle(i)
    \/ \E i \in 1..MaxInFlight : ServerStorageError(i)
    \/ \E i \in 1..MaxInFlight : ClientResolve(i)
    \/ \E i \in 1..MaxInFlight : NetworkFailure(i)

SpecRename == InitRename /\ [][NextRename]_vars

\* The server alone, with the legacy block collection: requests to
\* GET /api/pages and PUT /api/blocks handled one at a time
IdInputs == {"b1", "b2", "b3", "zz"}

RECURSIVE SeqsUpTo(_, _)
SeqsUpTo(S, n) ==
    IF n = 0 THEN {<<>>}
    ELSE LET shorter == SeqsUpTo(S, n - 1)
         IN shorter \cup {Append(q, x) : q \in {r \in shorter : Len(r) = n - 1},
                                         x \in S}

InitLegacy ==
    /\ InitialUI /\ Idle
    /\ pages = <<>> /\ selectedPageId = Nil /\ blocks = <<>>
    /\ error = Nil /\ pagesLoading = TRUE /\ pagesError = Nil
    /\ calls = <<>> /\ inFlightLimit = MaxInFlight
    /\ pagesFile \in {AbsentFile, ArrayFile(<<>>)}
    /\ blocksFile \in {AbsentFile, ArrayFile(<<>>), ArrayFile(<<B1, B2, B3>>)}

notFiles == <<homeVars, dragVars, menuVars, selectVars, titleVars,
              sidebarEditVars, sidebarDragVars, formVars, calls, idsDrawn,
              opCount,
              inFlightLimit, validatorVars,
              imageModal>>

\* A request to GET /api/pages
ListPages ==
    LET r == GetPages(pagesFile, blocksFile, clock)
    IN /\ pagesFile' = r.pagesFile
       /\ blocksFile' = r.blocksFile
       /\ ev' = [Event("GetPages") EXCEPT
                    !.call = Answered([NoCall EXCEPT !.op = "getPages"], r)]
       /\ UNCHANGED <<clock, notFiles>>

\* A request to PUT /api/blocks with the id list ids
ReorderBlocks(ids) ==
    LET r == PutBlocksReorder(ids, pagesFile, blocksFile)
    IN /\ pagesFile' = r.pagesFile
       /\ blocksFile' = r.blocksFile
       /\ ev' = [Event("PutBlocksReorder") EXCEPT
                    !.ids = ids,
                    !.call = [NoCall EXCEPT !.op = "putBlocks",
                                 !.stage = "response", !.status = r.status,
                                 !.errText = r.error]]
       /\ UNCHANGED <<clock, notFiles>>

\* Time passes
Tick ==
    /\ clock < MaxClock
    /\ clock' = clock + 1
    /\ ev' = Event("tick")
    /\ UNCHANGED <<pagesFile, blocksFile, notFiles>>

NextLegacy ==
    \/ ListPages
    \/ \E ids \in SeqsUpTo(IdInputs, MaxIds) : ReorderBlocks(ids)
    \/ Tick

SpecLegacy == InitLegacy /\ [][NextLegacy]_vars

\* The two validators applied to one candidate
TypeInputs == {"text", "image", "video", ""}
ContentValues ==
    {Str(<<>>), Str(<<"x">>), Str(HTTPS \o XPNG), Str(HTTP \o XPNG),
     Str(FTP \o XPNG), Num(600), Undef, Null}
VariantValues ==
    {Str(<<"h1">>), Str(<<"h2">>), Str(<<"h3">>), Str(<<"paragraph">>),
     Str(<<"h4">>), Str(<<>>), Undef}
DimensionValues ==
    {Num(0), Num(-5), Num(1), Num(600), Infinity, NaN,
     Str(<<"6", "0", "0">>), Undef}
StylesValues ==
    {Styles(kind, variant, Undef, Undef) :
        kind \in {"object", "array"}, variant \in VariantValues}
    \cup {Styles(kind, Undef, width, height) :
        kind \in {"object", "array"}, width \in DimensionValues,
        height \in {Num(400), Num(0), Undef}}
    \cup {Styles(kind, Undef, Undef, Undef) :
        kind \in {"null", "undefined", "string"}}
Candidates ==
    [type : TypeInputs, content : ContentValues, styles : StylesValues]

InitValidator ==
    /\ InitialUI
    /\ idsDrawn = 0 /\ opCount = 0 /\ ev = NoEvent /\ clock = 1
    /\ pages = <<>> /\ selectedPageId = Nil /\ blocks = <<>>
    /\ error = Nil /\ pagesLoading = TRUE /\ pagesError = Nil
    /\ calls = <<>> /\ inFlightLimit = MaxInFlight
    /\ pagesFile = AbsentFile /\ blocksFile = AbsentFile
    /\ candidate \in Candidates
    /\ verdictInput = "none" /\ verdictEdit = "none"
    /\ imageModal = InitialModal

\* validateBlockInput(candidate) on the server and
\* validateBlockEdit(type, content, styles) on the client
Validate ==
    /\ verdictInput = "none"
    /\ verdictInput' = validateBlockInput(candidate)
    /\ verdictEdit' =
          validateBlockEdit(candidate.type, candidate.content, candidate.styles)
    /\ ev' = Event("validate")
    /\ UNCHANGED <<candidate, serverVars, homeVars, dragVars, menuVars,
                   selectVars, titleVars, sidebarEditVars, sidebarDragVars,
                   formVars, calls, idsDrawn, opCount, inFlightLimit,
                   imageModal>>

NextValidator == Validate

SpecValidator == InitValidator /\ [][NextValidator]_vars

\* The server alone, with the page collection: requests to POST /api/pages,
\* PUT /api/pages, PUT /api/pages/[id] and DELETE /api/pages/[id] handled one
\* at a time
ApiIds == {"p1", "p2", "zz"}
ApiTitles == {<<"T">>, <<" ">>}

\* Blocks of request bodies: two that every check accepts, two image blocks
\* whose content is not an http(s) URL, and three with styles that are wrong
ApiBlocks ==
    {Block("b7", "text", Str(<<"z">>), TextStyles("h3")),
     Block("b8", "image", Str(HTTP \o XPNG), ImageStyles(300, 200)),
     Block("b8", "image", Str(FTP \o XPNG), ImageStyles(300, 200)),
     Block("b8", "image", Str(<<>>), ImageStyles(300, 200)),
     Block("b8", "image", Str(HTTPS \o XPNG), ImageStyles(0, 200)),
     Block("b7", "text", Str(<<"z">>), TextStyles("h4")),
     Block("b7", "text", Str(<<"z">>), Styles("array", Undef, Undef, Undef))}

\* Bodies of the bulk replace: the stored pages in another order, one of them
\* with a block more
ApiLists ==
    {<<P2, P1>>} \cup {<<P2, Page("p1", <<"A">>, <<B1, b>>)>> : b \in ApiBlocks}

InitApi ==
    /\ InitialUI
    /\ idsDrawn = 0 /\ opCount = 0 /\ ev = NoEvent /\ clock = 1
    /\ pages = <<>> /\ selectedPageId = Nil /\ blocks = <<>>
    /\ error = Nil /\ pagesLoading = TRUE /\ pagesError = Nil
    /\ calls = <<>> /\ inFlightLimit = MaxInFlight
    /\ candidate = NoCandidate /\ verdictInput = "none" /\ verdictEdit = "none"
    /\ imageModal = InitialModal
    /\ pagesFile \in {AbsentFile, ArrayFile(StoredPages)}
    /\ blocksFile = AbsentFile

\* The response r to request c, as an observation
ApiAnswered(h, c, r) ==
    [Event(h) EXCEPT !.id = c.pageId,
                     !.call = [c EXCEPT !.stage = "response",
                                        !.status = r.status,
                                        !.errText = r.error]]

\* The server handles request c and answers r
ApiRequest(h, c, r) ==
    /\ opCount' = opCount + 1
    /\ pagesFile' = r.pagesFile
    /\ blocksFile' = r.blocksFile
    /\ ev' = ApiAnswered(h, c, r)
    /\ UNCHANGED <<clock, homeVars, dragVars, menuVars, selectVars, titleVars,
                   sidebarEditVars, sidebarDragVars, formVars, calls, idsDrawn,
                   inFlightLimit, validatorVars,
                   imageModal>>

\* A request to POST /api/pages
ApiPostPage(id, title) ==
    /\ opCount < MaxRequests
    /\ LET body == Page(id, title, <<>>)
       IN ApiRequest("PostPage",
                     [NoCall EXCEPT !.op = "postPage", !.pageId = id,
                                    !.page = body],
                     PostPage(body, pagesFile, blocksFile))

\* A request to PUT /api/pages/[id]
ApiPutPageById(id, bodyId, block) ==
    /\ opCount < MaxRequests
    /\ LET body == Page(bodyId, <<"T">>, <<block>>)
       IN ApiRequest("PutPageById",
                     [NoCall EXCEPT !.op = "putPage", !.pageId = id,
                                    !.page = body],
                     PutPageById(id, body, pagesFile, blocksFile))

\* A request to PUT /api/pages
ApiPutPages(body) ==
    /\ opCount < MaxRequests
    /\ ApiRequest("PutPages", [NoCall EXCEPT !.op = "putPages", !.list = body],
                  PutPages(body, pagesFile, blocksFile))

\* A request to DELETE /api/pages/[id]
ApiDeletePageById(id) ==
    /\ opCount < MaxRequests
    /\ ApiRequest("DeletePageById",
                  [NoCall EXCEPT !.op = "deletePage", !.pageId = id],
                  DeletePageById(id, pagesFile, blocksFile))

NextApi ==
    \/ \E id \in ApiIds :
          \/ ApiDeletePageById(id)
          \/ \E title \in ApiTitles : ApiPostPage(id, title)
          \/ \E bodyId \in ApiIds, block \in ApiBlocks :
                ApiPutPageById(id, bodyId, block)
    \/ \E body \in ApiLists : ApiPutPages(body)

SpecApi == InitApi /\ [][NextApi]_vars

\* The server alone with a legacy block collection that is never written:
\* list-pages requests between creations and deletions of pages.  ev.ids
\* holds the ids of the pages the migration has synthesized so far.
MigrationIds == {ToString(now) : now \in 1..MaxClock} \cup {"p1"}

InitMigration ==
    /\ InitialUI
    /\ idsDrawn = 0 /\ opCount = 0 /\ ev = NoEvent /\ clock = 1
    /\ pages = <<>> /\ selectedPageId = Nil /\ blocks = <<>>
    /\ error = Nil /\ pagesLoading = TRUE /\ pagesError = Nil
    /\ calls = <<>> /\ inFlightLimit = MaxInFlight
    /\ candidate = NoCandidate /\ verdictInput = "none" /\ verdictEdit = "none"
    /\ imageModal = InitialModal
    /\ pagesFile \in {AbsentFile, ArrayFile(<<>>)}
    /\ blocksFile = ArrayFile(<<B1, B2, B3>>)

\* The server handles request c and answers r; synthesized holds the id of
\* the page the migration made for this request, if it made one
MigrationRequest(h, c, r, synthesized) ==
    /\ pagesFile' = r.pagesFile
    /\ blocksFile' = r.blocksFile
    /\ ev' = [ApiAnswered(h, c, r) EXCEPT !.ids = ev.ids \o synthesized]
    /\ UNCHANGED <<clock, homeVars, dragVars, menuVars, selectVars, titleVars,
                   sidebarEditVars, sidebarDragVars, formVars, calls, idsDrawn,
                   inFlightLimit, validatorVars,
                   imageModal>>

\* A request to GET /api/pages
MigrationListPages ==
    LET r == GetPages(pagesFile, blocksFile, clock)
        imports == /\ r.status = 200
                   /\ readPages(pagesFile).items = <<>>
                   /\ Len(r.data) > 0
    IN /\ MigrationRequest("GetPages", [NoCall EXCEPT !.op = "getPages"], r,
                           IF imports THEN <<r.data[1].id>> ELSE <<>>)
       /\ UNCHANGED opCount

\* A request to POST /api/pages
MigrationPostPage(id, title) ==
    /\ opCount < MaxRequests
    /\ opCount' = opCount + 1
    /\ LET body == Page(id, title, <<>>)
       IN MigrationRequest("PostPage",
                           [NoCall EXCEPT !.op = "postPage", !.pageId = id,
                                          !.page = body],
                           PostPage(body, pagesFile, blocksFile), <<>>)

\* A request to DELETE /api/pages/[id]
MigrationDeletePage(id) ==
    /\ opCount < MaxRequests
    /\ opCount' = opCount + 1
    /\ MigrationRequest("DeletePageById",
                        [NoCall EXCEPT !.op = "deletePage", !.pageId = id],
                        DeletePageById(id, pagesFile, blocksFile), <<>>)

\* Time passes between requests
MigrationTick ==
    /\ clock < MaxClock
    /\ clock' = clock + 1
    /\ ev' = [Event("tick") EXCEPT !.ids = ev.ids]
    /\ UNCHANGED <<pagesFile, blocksFile, notFiles>>

NextMigration ==
    \/ MigrationListPages
    \/ \E id \in MigrationIds :
          \/ MigrationDeletePage(id)
          \/ \E title \in ApiTitles : MigrationPostPage(id, title)
    \/ MigrationTick

SpecMigration == InitMigration /\ [][NextMigration]_vars

\* The stored collections in any condition the disk can be in: absent, an
\* array, a JSON value that is no array, text that is no JSON.  The server
\* reads them, alone or within a request.
StoreFiles == {AbsentFile, ArrayFile(<<>>), ValueFile, TextFile}

InitStore ==
    /\ InitialUI
    /\ idsDrawn = 0 /\ opCount = 0 /\ ev = NoEvent /\ clock = 1
    /\ pages = <<>> /\ selectedPageId = Nil /\ blocks = <<>>
    /\ error = Nil /\ pagesLoading = TRUE /\ pagesError = Nil
    /\ calls = <<>> /\ inFlightLimit = MaxInFlight
    /\ candidate = NoCandidate /\ verdictInput = "none" /\ verdictEdit = "none"
    /\ imageModal = InitialModal
    /\ pagesFile \in StoreFiles \cup {ArrayFile(StoredPages)}
    /\ blocksFile \in StoreFiles \cup {ArrayFile(<<B1>>)}

\* What a read of a stored collection gave: the list it returned, or that
\* it threw
StoreRead(h, r) ==
    [Event(h) EXCEPT !.outcome = IF r.ok THEN "returned" ELSE "threw",
                     !.call = [NoCall EXCEPT !.data = r.items]]

\* readPages()
StoreReadPages ==
    LET r == readPages(pagesFile)
    IN /\ pagesFile' = r.file
       /\ ev' = StoreRead("readPages", r)
       /\ UNCHANGED <<blocksFile, opCount, clock, notFiles>>

\* readBlocks()
StoreReadBlocks ==
    LET r == readBlocks(blocksFile)
    IN /\ blocksFile' = r.file
       /\ ev' = StoreRead("readBlocks", r)
       /\ UNCHANGED <<pagesFile, opCount, clock, notFiles>>

NextStore ==
    \/ StoreReadPages
    \/ StoreReadBlocks
    \/ MigrationListPages
    \/ \E id \in MigrationIds :
          \/ MigrationDeletePage(id)
          \/ \E title \in ApiTitles : MigrationPostPage(id, title)

SpecStore == InitStore /\ [][NextStore]_vars

\* The server handles the calls in the order of their dispatch, and answers
\* call i with success; a call the server would reject is never answered
ServerHandleInOrder(i) ==
    /\ \A j \in 1..(i - 1) : j \in 1..Len(calls) => calls[j].stage # "request"
    /\ ServerHandle(i)
    /\ Ok(calls'[i].status)

\* Home with a server that handles every call in dispatch order and a
\* network that loses nothing: every persistence call succeeds
NextInOrder ==
    \/ \E title \in PromptInputs : handleCreatePage(title)
    \/ \E pageId \in PageIds :
          \/ handleSelectPage(pageId)
          \/ handleDeletePage(pageId)
          \/ handleDoubleClick(pageId)
          \/ SidebarDragStart(pageId)
          \/ SidebarDragOver(pageId)
          \/ SidebarDrop(pageId)
    \/ \E value \in RenameInputs : handleTitleChange(value)
    \/ handleTitleSave
    \/ handleTitleCancel
    \/ SidebarDragLeave
    \/ SidebarDragEnd
    \/ \E id \in BlockIds :
          \/ handleDragStart(id)
          \/ handleDragOver(id, "after")
          \/ handleDrop(id)
          \/ handleDeleteBlock(id)
          \/ handleInsertBlockAfter(id, "paragraph")
          \/ \E updates \in UpdateInputs : handleUpdateBlock(id, updates)
    \/ handleDragEnd
    \/ \E i \in 1..MaxInFlight : ServerHandleInOrder(i)
    \/ \E i \in 1..MaxInFlight : ClientResolve(i)

SpecInOrder == Init /\ [][NextInOrder]_vars

\* The server handling page-write requests concurrently.  A route handler
\* runs up to its await of readPages(), then up to its await of
\* writePages(); between the two the handlers of other requests run.  A
\* request in stage "read" holds in previousPages the list readPages()
\* returned to it.
ConcurrentRequests ==
    {[NoCall EXCEPT !.op = "putPage", !.pageId = id,
                    !.page = Page(id, <<"T">>, <<B4>>)] : id \in {"p1", "p2"}}
    \cup {[NoCall EXCEPT !.op = "deletePage", !.pageId = id] : id \in {"p1", "p2"}}
    \cup {[NoCall EXCEPT !.op = "postPage", !.pageId = "p3",
                         !.page = Page("p3", <<"T">>, <<>>)]}

InitConcurrent ==
    /\ InitialUI
    /\ idsDrawn = 0 /\ opCount = 0 /\ ev = NoEvent /\ clock = 1
    /\ pages = <<>> /\ selectedPageId = Nil /\ blocks = <<>>
    /\ error = Nil /\ pagesLoading = TRUE /\ pagesError = Nil
    /\ calls = <<>> /\ inFlightLimit = MaxInFlight
    /\ candidate = NoCandidate /\ verdictInput = "none" /\ verdictEdit = "none"
    /\ imageModal = InitialModal
    /\ pagesFile = ArrayFile(StoredPages)
    /\ blocksFile = AbsentFile

\* The route of request c from the list its readPages() returned
RouteAfterRead(c, items) ==
    CASE c.op = "postPage" -> PostPage(c.page, ArrayFile(items), blocksFile)
      [] c.op = "putPage" ->
            PutPageById(c.pageId, c.page, ArrayFile(items), blocksFile)
      [] c.op = "deletePage" ->
            DeletePageById(c.pageId, ArrayFile(items), blocksFile)

\* A request arrives
ConcurrentReceive(c) ==
    /\ opCount < MaxRequests /\ Len(calls) < MaxInFlight
    /\ calls' = Append(calls, c)
    /\ opCount' = opCount + 1
    /\ ev' = [Event("receive") EXCEPT !.call = c]
    /\ UNCHANGED <<serverVars, homeVars, dragVars, menuVars, selectVars,
                   titleVars, sidebarEditVars, sidebarDragVars, formVars,
                   idsDrawn, inFlightLimit, validatorVars,
                   imageModal>>

\* const pages = await readPages()
ConcurrentReadPages(i) ==
    /\ i \in 1..Len(calls) /\ calls[i].stage = "request"
    /\ LET rp == readPages(pagesFile)
       IN /\ calls' = [calls EXCEPT ![i].stage = "read",
                                    ![i].previousPages = rp.items]
          /\ pagesFile' = rp.file
          /\ ev' = [Event("readPages") EXCEPT !.call = calls[i]]
    /\ UNCHANGED <<blocksFile, clock, notServer>>

\* The handler from the return of readPages() to its response:
\* await writePages(pages) when it accepts the request
ConcurrentWritePages(i) ==
    /\ i \in 1..Len(calls) /\ calls[i].stage = "read"
    /\ LET r == RouteAfterRead(calls[i], calls[i].previousPages)
       IN /\ calls' = [calls EXCEPT ![i] = Answered(calls[i], r)]
          /\ pagesFile' = IF Ok(r.status) THEN r.pagesFile ELSE pagesFile
          /\ ev' = [Event("writePages") EXCEPT !.call = Answered(calls[i], r)]
    /\ UNCHANGED <<blocksFile, clock, notServer>>

NextConcurrent ==
    \/ \E c \in ConcurrentRequests : ConcurrentReceive(c)
    \/ \E i \in 1..MaxInFlight : ConcurrentReadPages(i)
    \/ \E i \in 1..MaxInFlight : ConcurrentWritePages(i)

SpecConcurrent == InitConcurrent /\ [][NextConcurrent]_vars

\* The loaded application with the selection of a block, the switch to
\* another page, and insertions and deletions of blocks
NextSwitch ==
    \/ \E pageId \in PageIds : handleSelectPage(pageId)
    \/ \E id \in BlockIds :
          \/ handleSelectBlock(id)
          \/ handleDeleteBlock(id)
          \/ handleInsertBlockAfter(id, "paragraph")
    \/ \E target \in ClickTargets : handleMainClick(target)
    \/ \E i \in 1..MaxInFlight : ServerHandle(i)
    \/ \E i \in 1..MaxInFlight : ServerStorageError(i)
    \/ \E i \in 1..MaxInFlight : ClientResolve(i)
    \/ \E i \in 1..MaxInFlight : NetworkFailure(i)

SpecSwitch == InitSelect /\ [][NextSwitch]_vars

\* ------------------------------------------------------------------------
\* ImageModal: the detection of an image's dimensions
\* ------------------------------------------------------------------------

\* n.toString() of a natural number
RECURSIVE DecimalString(_)
DecimalString(n) ==
    IF n < 10 THEN <<Digits[n + 1]>>
    ELSE DecimalString(n \div 10) \o <<Digits[(n % 10) + 1]>>

\* What is typed into the URL input, and the natural sizes of images
ModalUrls == {<<>>, HTTPS \o XPNG, HTTP \o XPNG, FTP \o XPNG}
NaturalSizes == {[width |-> 600, height |-> 400], [width |-> 30, height |-> 20]}

\* useEffect [url] of the render in which url has become m.url: its cleanup
\* and body up to setTimeout
UrlEffect(m) ==
    IF Trim(m.url) = <<>>
    THEN [m EXCEPT !.debounceTimerRef = NoTimer, !.showPreview = FALSE,
                   !.dimensionError = Nil, !.urlError = Nil]
    ELSE IF validateUrl(m.url) # Nil
    THEN [m EXCEPT !.debounceTimerRef = NoTimer,
                   !.urlError = validateUrl(m.url), !.showPreview = FALSE]
    ELSE [m EXCEPT !.urlError = Nil,
                   !.debounceTimerRef = [set |-> TRUE, url |-> m.url]]

\* currentRequestId === requestIdRef.current && urlAtRequestTime === url,
\* where url is the constant of the render whose effect set the timer
StillCurrent(d) ==
    d.currentRequestId = imageModal.requestIdRef /\ d.urlAtRequestTime = d.url

modalFrame == <<homeVars, dragVars, isBlockMenuOpen, blockMenuContext,
                showEmptyBlock, selectVars, titleVars, sidebarEditVars,
                sidebarDragVars, formVars, calls, serverVars, idsDrawn,
                opCount, inFlightLimit, validatorVars>>

\* Home handleOpenImageModal, and the useEffect [isOpen, ...] of ImageModal
\* (no initial values are passed)
ImageModalOpens ==
    /\ ~isImageModalOpen
    /\ isImageModalOpen' = TRUE
    /\ imageModalContext' = BottomContext
    /\ imageModal' = UrlEffect([imageModal EXCEPT
                                   !.url = <<>>, !.width = <<>>,
                                   !.height = <<>>, !.dimensionError = Nil,
                                   !.urlError = Nil, !.showPreview = FALSE])
    /\ ev' = Event("handleOpenImageModal")
    /\ UNCHANGED modalFrame

\* onChange of the URL input: setUrl(value), setUrlError(null)
ImageModalUrlChange(value) ==
    /\ isImageModalOpen /\ value # imageModal.url
    /\ imageModal' = UrlEffect([imageModal EXCEPT !.url = value,
                                                  !.urlError = Nil])
    /\ ev' = [Event("setUrl") EXCEPT !.title = value]
    /\ UNCHANGED <<isImageModalOpen, imageModalContext, modalFrame>>

\* The debounce timer fires: the callback up to its await
DebounceFires ==
    /\ imageModal.debounceTimerRef.set
    /\ imageModal.requestIdRef < MaxRequests
    /\ LET currentRequestId == imageModal.requestIdRef + 1
           d == [currentRequestId |-> currentRequestId,
                 urlAtRequestTime |-> imageModal.debounceTimerRef.url,
                 url |-> imageModal.debounceTimerRef.url]
       IN /\ imageModal' = [imageModal EXCEPT
                               !.requestIdRef = currentRequestId,
                               !.debounceTimerRef = NoTimer,
                               !.isLoadingDimensions = TRUE,
                               !.dimensionError = Nil,
                               !.detections = @ \cup {d}]
          /\ ev' = [Event("debounce") EXCEPT
                       !.id = ToString(currentRequestId),
                       !.title = d.urlAtRequestTime]
    /\ UNCHANGED <<isImageModalOpen, imageModalContext, modalFrame>>

\* finally: only the latest request clears the loading state
DetectionSettled(m, d) ==
    [m EXCEPT !.detections = @ \ {d},
              !.isLoadingDimensions =
                  IF d.currentRequestId = imageModal.requestIdRef
                  THEN FALSE ELSE @]

\* loadImageDimensions resolves with the natural size of the image
DetectionResolves(d, dimensions) ==
    /\ d \in imageModal.detections
    /\ imageModal' =
          DetectionSettled(
              IF StillCurrent(d)
              THEN [imageModal EXCEPT
                       !.width = DecimalString(dimensions.width),
                       !.height = DecimalString(dimensions.height),
                       !.showPreview = TRUE, !.dimensionError = Nil]
              ELSE imageModal, d)
    /\ ev' = [Event("loadImageDimensions:resolved") EXCEPT
                 !.id = ToString(d.currentRequestId),
                 !.title = d.urlAtRequestTime]
    /\ UNCHANGED <<isImageModalOpen, imageModalContext, modalFrame>>

\* loadImageDimensions rejects: the image fails to load, has no size, or
\* the load times out
DetectionRejects(d) ==
    /\ d \in imageModal.detections
    /\ imageModal' =
          DetectionSettled(
              IF StillCurrent(d)
              THEN [imageModal EXCEPT
                       !.dimensionError = "Failed to load image",
                       !.showPreview = FALSE]
              ELSE imageModal, d)
    /\ ev' = [Event("loadImageDimensions:rejected") EXCEPT
                 !.id = ToString(d.currentRequestId),
                 !.title = d.urlAtRequestTime]
    /\ UNCHANGED <<isImageModalOpen, imageModalContext, modalFrame>>

\* ImageModal handleClose (Cancel, the backdrop), with Home
\* handleCloseImageModal as onClose
ImageModalCloses ==
    /\ isImageModalOpen
    /\ imageModal' = UrlEffect([imageModal EXCEPT
                                   !.url = <<>>, !.width = <<>>,
                                   !.height = <<>>,
                                   !.isLoadingDimensions = FALSE,
                                   !.dimensionError = Nil, !.urlError = Nil,
                                   !.showPreview = FALSE])
    /\ isImageModalOpen' = FALSE
    /\ imageModalContext' = BottomContext
    /\ ev' = Event("handleClose")
    /\ UNCHANGED modalFrame

\* The detections that can be in flight
Detections ==
    {[currentRequestId |-> id, urlAtRequestTime |-> u, url |-> u] :
        id \in 1..MaxRequests, u \in ModalUrls}

\* The loaded application with the image modal
InitDetect ==
    InitialUI /\ Idle /\ Loaded(StoredPages) /\ inFlightLimit = MaxInFlight

NextDetect ==
    \/ ImageModalOpens
    \/ \E value \in ModalUrls : ImageModalUrlChange(value)
    \/ DebounceFires
    \/ \E d \in Detections :
          \/ DetectionRejects(d)
          \/ \E dimensions \in NaturalSizes : DetectionResolves(d, dimensions)
    \/ ImageModalCloses

SpecDetect == InitDetect /\ [][NextDetect]_vars

\* ------------------------------------------------------------------------
\* Properties of the block editor (SpecBlocks)
\* ------------------------------------------------------------------------

\* The last step was the failure of a block mutation's call that was the
\* only call outstanding from its dispatch on
BlockMutationFailed ==
    /\ ev.h = "resolve" /\ ev.outcome # "ok"
    /\ ev.call.handler \in BlockHandlers
    /\ ev.call.alone

InsertStep ==
    /\ ev.h \in InsertHandlers

\* list without its element at position k (1-based)
DropAt(list, k) ==
    [i \in 1..(Len(list) - 1) |-> IF i < k THEN list[i] ELSE list[i + 1]]

\* C5: an insertion with an anchor that is in the block list puts the new
\* block at index anchorIndex + 1 and keeps the other blocks in order; with
\* a null anchor or an anchor that is not in the list the new block is last.
C5_InsertAfterAnchor ==
    InsertStep =>
        LET anchorIndex == FindIndex(ev.preBlocks, ev.id)
            at == IF ev.id # Nil /\ ev.id \in Ids(ev.preBlocks)
                  THEN anchorIndex + 2
                  ELSE Len(ev.preBlocks) + 1
        IN /\ Len(blocks) = Len(ev.preBlocks) + 1
           /\ blocks[at].id = ev.id2
           /\ DropAt(blocks, at) = ev.preBlocks

\* An insertion in the middle of the list, after an existing anchor
C5_Witness ==
    /\ InsertStep
    /\ ev.id \in Ids(ev.preBlocks)
    /\ FindIndex(ev.preBlocks, ev.id) + 1 < Len(ev.preBlocks)
    /\ ev.id2 \in Ids(blocks)

\* The last step was a drop that reordered the list
DropStep == ev.h = "handleDrop" /\ ev.outcome = "accepted"

\* C6: in a list of distinct ids, dropping a dragged block on a different
\* target of the list, on side
\* 'before' (resp. 'after'), yields a permutation in which the dragged block
\* is immediately before (resp. after) the target and the other blocks keep
\* their relative order, whichever way the block is dragged.
C6_DropAdjacentToTarget ==
    (DropStep /\ Distinct(ev.preBlocks)) =>
        LET d == FindIndex(blocks, ev.id)
            t == FindIndex(blocks, ev.id2)
        IN /\ Len(blocks) = Len(ev.preBlocks)
           /\ d # -1 /\ t # -1
           /\ d = (IF ev.side = "after" THEN t + 1 ELSE t - 1)
           /\ DropAt(blocks, d + 1)
                = DropAt(ev.preBlocks, FindIndex(ev.preBlocks, ev.id) + 1)
           /\ blocks[d + 1] = ev.preBlocks[FindIndex(ev.preBlocks, ev.id) + 1]

\* [A,B,C,D]: D dropped before B, upward across C
C6_Witness ==
    /\ DropStep
    /\ Len(ev.preBlocks) >= 4
    /\ ev.side = "before"
    /\ FindIndex(ev.preBlocks, ev.id) = 3
    /\ FindIndex(ev.preBlocks, ev.id2) = 1
    /\ FindIndex(blocks, ev.id) = 1

\* ------------------------------------------------------------------------
\* Properties of the application (Spec)
\* ------------------------------------------------------------------------

\* The last step was the failure of a mutation's call that was the only call
\* outstanding from its dispatch on
MutationFailed ==
    /\ ev.h = "resolve" /\ ev.outcome # "ok"
    /\ ev.call.op # "getPages"
    /\ ev.call.alone

\* C2: for every mutation kind and every failure kind (failure status or
\* rejected request), once the failed call has resolved the local state no
\* longer holds the mutation's optimistic change: the page list is the one
\* the mutation started from, and a page whose creation failed is neither
\* listed nor selected.
C2_FailureRemovesOptimisticChange ==
    MutationFailed =>
        /\ pages = ev.call.sPages
        /\ ev.call.handler = "handleCreatePage" =>
               /\ ev.call.newId \notin Ids(pages)
               /\ selectedPageId # ev.call.newId

\* The last step was an accepted page creation
CreateStep == ev.h = "handleCreatePage" /\ ev.outcome = "accepted"

\* The last step was the failure of a page creation's call
CreateFailed == MutationFailed /\ ev.call.handler = "handleCreatePage"

\* C3: page creation appends the new page and selects it before its call
\* resolves; when the call fails the new page is no longer listed and the
\* selected page is the one that was selected before the creation.
C3_CreateAppendsSelectsAndUndoes ==
    /\ CreateStep =>
          /\ Len(pages) = Len(ev.prePages) + 1
          /\ DropAt(pages, Len(pages)) = ev.prePages
          /\ pages[Len(pages)].id = ev.id
          /\ selectedPageId = ev.id
          /\ \E i \in 1..Len(calls) :
                calls[i].op = "postPage" /\ calls[i].pageId = ev.id
    /\ CreateFailed =>
          /\ ev.call.newId \notin Ids(pages)
          /\ selectedPageId = ev.call.sSel

\* The last step was the server answering call ev.call with success
ServerAccepted(op) ==
    ev.h = "server" /\ ev.call.op = op /\ Ok(ev.call.status)

\* C8: after a successful create call for a page with client id X the stored
\* pages are the ones stored before plus a page with id X; after a
\* successful page-replace call the stored page's blocks carry exactly the
\* ids the client sent, a block created locally included.
C8_ClientIdsPreserved ==
    /\ ServerAccepted("postPage") =>
          /\ pagesFile.kind = "array"
          /\ IdSeq(pagesFile.items)
               = Append(IdSeq(ev.prePagesFile.items), ev.call.pageId)
    /\ ServerAccepted("putPage") =>
          /\ pagesFile.kind = "array"
          /\ IdSeq(pagesFile.items) = IdSeq(ev.prePagesFile.items)
          /\ IdSeq(FindPage(pagesFile.items, ev.call.pageId).blocks)
               = IdSeq(ev.call.page.blocks)
          /\ ev.call.newId # Nil =>
                ev.call.newId \in Ids(FindPage(pagesFile.items, ev.call.pageId).blocks)

\* A created page was stored under its client id
C8_Witness ==
    /\ ServerAccepted("postPage")
    /\ ev.call.pageId \in {UUIDS[i] : i \in 1..Len(UUIDS)}
    /\ ev.call.pageId \in Ids(pagesFile.items)
    /\ ev.call.pageId \notin Ids(ev.prePagesFile.items)

\* ------------------------------------------------------------------------
\* Properties of the page rename (SpecRename)
\* ------------------------------------------------------------------------

\* The last step asked, through one of the entry points, for page ev.id to
\* be renamed to a title whose trimmed value is the page's current title
SameTitleStep(entryPoints) ==
    /\ ev.h \in entryPoints
    /\ ev.id \in Ids(ev.prePages)
    /\ \E t \in {<<"A">>, <<"B">>} :
          /\ FindPage(ev.prePages, ev.id).title = t
          /\ ev.title \in {t, <<" ">> \o t, t \o <<" ">>}

\* The last step dispatched no call and left the page list as it was
NothingSent == Len(calls) = ev.preCalls /\ pages = ev.prePages

Stored(file) == IF file.kind = "array" THEN file.items ELSE <<>>

\* The last step was a reorder request with an id list that has a duplicate,
\* an id that is not stored, or another length than the stored collection
BadReorderStep ==
    /\ ev.h = "PutBlocksReorder"
    /\ \/ \E i, j \in 1..Len(ev.ids) : i < j /\ ev.ids[i] = ev.ids[j]
       \/ \E i \in 1..Len(ev.ids) : ev.ids[i] \notin Ids(Stored(ev.preBlocksFile))
       \/ \E id \in Ids(Stored(ev.preBlocksFile)) :
             \A i \in 1..Len(ev.ids) : ev.ids[i] # id
       \/ Len(ev.ids) # Len(Stored(ev.preBlocksFile))

\* C7: a legacy reorder request whose id list has a duplicate, omits a
\* stored id, contains an unknown id or has another length than the stored
\* collection is answered 400, and the stored block collection is what it
\* was before the request.
C7_BadReorderRejected ==
    BadReorderStep =>
        /\ ev.call.status = 400
        /\ Stored(blocksFile) = Stored(ev.preBlocksFile)
        /\ ev.preBlocksFile.kind = "array" => blocksFile = ev.preBlocksFile
        /\ pagesFile = ev.prePagesFile

\* A list of the right length and of stored ids only, one of them twice
C7_Witness ==
    /\ BadReorderStep
    /\ ev.ids = <<"b2", "b1", "b2">>
    /\ Stored(ev.preBlocksFile) = <<B1, B2, B3>>
    /\ ev.call.status = 400

\* The last step was a list-pages request
ListStep == ev.h = "GetPages"

\* No page was stored before the last step
NoPagesBefore == ev.prePagesFile.kind \in {"absent", "array"}
                 /\ Stored(ev.prePagesFile) = <<>>

\* Before the last step exactly one page was stored: the import of the
\* legacy collection as it still is
ImportedBefore ==
    /\ ev.prePagesFile.kind = "array"
    /\ Len(ev.prePagesFile.items) = 1
    /\ ev.prePagesFile.items[1].title = <<"Imported Page">>
    /\ ev.prePagesFile.items[1].blocks = Stored(ev.preBlocksFile)
    /\ Len(Stored(ev.preBlocksFile)) > 0

\* C9: with no page stored and a non-empty legacy block collection, a
\* list-pages request stores and returns exactly one page titled 'Imported
\* Page' that holds all the legacy blocks; a list-pages request that finds
\* this page and the same legacy collection returns that single page and
\* stores nothing new.
C9_MigrationOnce ==
    /\ (ListStep /\ NoPagesBefore /\ Len(Stored(ev.preBlocksFile)) > 0) =>
          /\ ev.call.status = 200
          /\ Len(Stored(pagesFile)) = 1
          /\ Stored(pagesFile)[1].title = <<"Imported Page">>
          /\ Stored(pagesFile)[1].blocks = Stored(ev.preBlocksFile)
          /\ ev.call.data = JsonPages(Stored(pagesFile))
          /\ blocksFile = ev.preBlocksFile
    /\ (ListStep /\ ImportedBefore) =>
          /\ ev.call.status = 200
          /\ pagesFile = ev.prePagesFile
          /\ ev.call.data = JsonPages(ev.prePagesFile.items)
          /\ blocksFile = ev.preBlocksFile

\* The second list-pages request, at a later time than the import
C9_Witness ==
    /\ ListStep /\ ImportedBefore
    /\ ev.prePagesFile.items[1].id # ToString(clock)
    /\ Len(Stored(pagesFile)) = 1

\* ------------------------------------------------------------------------
\* Properties of the validators (SpecValidator)
\* ------------------------------------------------------------------------

\* A finite number greater than zero
PositiveFinite(x) == x.k = "num" /\ x.n > 0

\* cs begins with the characters of prefix
Begins(cs, prefix) ==
    \A i \in 1..Len(prefix) : i <= Len(cs) /\ cs[i] = prefix[i]

\* The first check, in the stated order, that candidate c fails ("ok": none)
FirstFailure(c) ==
    CASE c.type \notin {"text", "image"} -> "type"
      [] OTHER ->
    CASE c.content.k # "str" -> "content"
      [] OTHER ->
    CASE c.type = "image" /\ ~Begins(c.content.s, HTTP)
         /\ ~Begins(c.content.s, HTTPS) -> "url"
      [] OTHER ->
    CASE c.styles.k # "object" -> "styles"
      [] OTHER ->
    CASE c.type = "text"
         /\ c.styles.variant \notin {Str(<<v>>) : v \in {"h1", "h2", "h3", "paragraph"}}
           -> "variant"
      [] OTHER ->
    CASE c.type = "image" /\ ~PositiveFinite(c.styles.width) -> "width"
      [] OTHER ->
    CASE c.type = "image" /\ ~PositiveFinite(c.styles.height) -> "height"
      [] OTHER -> "ok"

\* C10: each validator accepts a candidate exactly when it passes, in this
\* order and with the first failure deciding the result: type is 'text' or
\* 'image'; content is a string (an image's starts with http:// or
\* https://); styles is a non-null, non-array object; a text's variant is one
\* of h1, h2, h3, paragraph; an image's width and height are finite numbers
\* greater than zero.
C10_ValidatorsDecideInOrder ==
    verdictInput # "none" =>
        /\ verdictInput = FirstFailure(candidate)
        /\ verdictEdit = FirstFailure(candidate)

\* C11: for every candidate the client-side validator validateBlockEdit and
\* the server-side validator validateBlockInput give the same verdict: both
\* accept or both reject.
C11_ValidatorsAgree ==
    verdictInput # "none" => (verdictInput = "ok" <=> verdictEdit = "ok")

\* ------------------------------------------------------------------------
\* Properties of the persistence calls of block mutations (SpecBlocks)
\* ------------------------------------------------------------------------

\* The last step was a block handler that changed the displayed blocks or
\* the page list
BlockMutationStep ==
    /\ ev.h \in BlockHandlers
    /\ blocks # ev.preBlocks \/ pages # ev.prePages

BlockCallFailed ==
    /\ ev.h = "resolve" /\ ev.outcome # "ok"
    /\ ev.call.handler \in BlockHandlers

\* The error text updatePageBlocks is to surface: the response body's when
\* there is one, a generic message otherwise
SurfacedError ==
    IF ev.outcome = "status" /\ ev.call.errText # Nil
    THEN {ev.call.errText}
    ELSE {"Failed to persist page changes", NetworkErrorMessage}

\* The catch block of updatePageBlocks set the error state as required
C13_ErrorTextSet == BlockCallFailed => ev.errorSet \in SurfacedError

\* C13: when a block mutation's persistence call fails, Home sets its error
\* state to the error text of the response body when there is one and to a
\* generic message otherwise, and re-raises the failure, so that the edit
\* form of the block that awaited the update stays open and shows the error.
C13_FailureSurfacedAndFormStaysOpen ==
    BlockCallFailed =>
        /\ ev.errorSet \in SurfacedError
        /\ ev.call.handler = "handleSave" =>
              /\ ev.preEditing # Nil
              /\ editingBlockId = ev.preEditing
              /\ blockError = ev.errorSet


\* ------------------------------------------------------------------------
\* C14: operations on an id that is not in the block list
\* ------------------------------------------------------------------------

\* The last step updated or deleted a block id that was not in the list, or
\* dropped with the dragged or the target id not in the list
StaleIdStep ==
    \/ /\ ev.h \in {"handleUpdateBlock", "handleDeleteBlock"}
       /\ ev.id \notin Ids(ev.preBlocks)
    \/ /\ ev.h = "handleDrop"
       /\ ev.id \notin Ids(ev.preBlocks) \/ ev.id2 \notin Ids(ev.preBlocks)

\* C14: updating or deleting an id that is not in the block list, and a drop
\* whose dragged or target id is no longer in the list, leave the block list
\* (and the pages holding it) as they were, contents and order, and set no
\* error.
C14_UnknownIdIsNoOp ==
    StaleIdStep =>
        /\ blocks = ev.preBlocks
        /\ pages = ev.prePages
        /\ error = Nil /\ pagesError = Nil

\* A drop on a block that a rollback removed from the list during the drag
C14_Witness ==
    /\ ev.h = "handleDrop" /\ ev.id \in Ids(ev.preBlocks)
    /\ ev.id2 \notin Ids(ev.preBlocks)
    /\ Len(blocks) > 1 /\ blocks = ev.preBlocks

\* A drop of a block that a rollback removed from the list during the drag
C14_WitnessDraggedGone ==
    ev.h = "handleDrop" /\ ev.id \notin Ids(ev.preBlocks) /\ ev.id # Nil

\* An update of an id that is not in the list
C14_WitnessUpdate ==
    ev.h = "handleUpdateBlock" /\ ev.id \notin Ids(ev.preBlocks) /\ Len(blocks) > 1

\* A deletion of an id that is not in the list
C14_WitnessDelete ==
    ev.h = "handleDeleteBlock" /\ ev.id \notin Ids(ev.preBlocks) /\ Len(blocks) > 1


\* ------------------------------------------------------------------------
\* C15: a rollback under a later mutation
\* ------------------------------------------------------------------------

\* The last step was the failure of block mutation M1 = ev.call, and another
\* call was dispatched while M1 was outstanding
OvertakenMutationFailed ==
    BlockCallFailed /\ ev.call.overtaken

\* C15: when block mutation M1 fails after a second mutation M2 was dispatched
\* while M1 was outstanding, the rollback puts the page list back to what it
\* was when M1 was dispatched, so M2's optimistic change is gone from it,
\* and the block list shown is the one of that page list.
C15_RollbackDropsLaterMutation ==
    OvertakenMutationFailed =>
        /\ pages = ev.call.sPages
        /\ selectedPageId = ev.call.sSel => blocks = ev.call.sBlocks

\* M2 succeeded and is stored, and M1's rollback removed it from the screen
C15_Witness ==
    /\ OvertakenMutationFailed
    /\ calls = <<>>
    /\ ev.prePages # pages
    /\ pagesFile.kind = "array"
    /\ \E i \in 1..Len(pagesFile.items) :
          /\ pagesFile.items[i].id = ev.call.pageId
          /\ pagesFile.items[i].blocks # JsonBlocks(blocks)
          /\ pagesFile.items[i].blocks # ev.call.page.blocks
          /\ pagesFile.items[i].blocks = JsonBlocks(ev.preBlocks)


\* ------------------------------------------------------------------------
\* C16, C17: the page reorder (bulk PUT /api/pages)
\* ------------------------------------------------------------------------

\* The last step was the server handling the bulk PUT of a page reorder
ReorderHandled ==
    /\ ev.h = "server" /\ ev.call.op = "putPages"
    /\ ev.call.handler = "handleReorderPages"

\* ids holds every item of list exactly once and nothing else
IsPermutationOf(ids, list) ==
    /\ Len(ids) = Len(list)
    /\ \A i \in 1..Len(list) : \E j \in 1..Len(ids) : ids[j] = list[i].id
    /\ \A i, j \in 1..Len(ids) : ids[i] = ids[j] => i = j

\* C16: a page reorder whose ids are not exactly a permutation of the stored
\* page ids is rejected, and the stored pages are what they were before it.
C16_NonPermutationRejected ==
    (ReorderHandled
        /\ ~IsPermutationOf(IdSeq(ev.call.list), Stored(ev.prePagesFile))) =>
        /\ ev.call.status # 200
        /\ pagesFile = ev.prePagesFile


\* C17: a successful page reorder changes only positions: every page stored
\* before it is stored after it with the same title and the same blocks.
C17_ReorderKeepsContent ==
    (ReorderHandled /\ ev.call.status = 200) =>
        \A i \in 1..Len(Stored(ev.prePagesFile)) :
           \E j \in 1..Len(Stored(pagesFile)) :
              Stored(pagesFile)[j] = Stored(ev.prePagesFile)[i]

\* C17 for the requests that reorder the stored page ids: the content of
\* every stored page is kept.
C17_PermutationKeepsContent ==
    (ReorderHandled /\ ev.call.status = 200
        /\ IsPermutationOf(IdSeq(ev.call.list), Stored(ev.prePagesFile))) =>
        \A i \in 1..Len(Stored(ev.prePagesFile)) :
           \E j \in 1..Len(Stored(pagesFile)) :
              Stored(pagesFile)[j] = Stored(ev.prePagesFile)[i]


\* ------------------------------------------------------------------------
\* C18: block validation at the persistence boundary
\* ------------------------------------------------------------------------

\* The last step was a request to one of the two replace endpoints
ReplaceHandled == ev.h \in {"PutPageById", "PutPages"}

\* The blocks of the body of the last request
BodyBlocks ==
    IF ev.h = "PutPageById"
    THEN {ev.call.page.blocks[i] : i \in 1..Len(ev.call.page.blocks)}
    ELSE UNION {{ev.call.list[p].blocks[i] :
                    i \in 1..Len(ev.call.list[p].blocks)} :
                p \in 1..Len(ev.call.list)}

\* The last step was a request to replace a stored page, or to replace the
\* page list, with a body holding a block that validateBlockInput rejects
InvalidBlockSent ==
    /\ ReplaceHandled
    /\ ev.h = "PutPageById" => ev.id \in Ids(Stored(ev.prePagesFile))
    /\ \E b \in BodyBlocks : validateBlockInput(b) # "ok"

\* C18: PUT /api/pages/[id] (for a stored page) and PUT /api/pages answer 400,
\* and leave the stored pages as they were, when the body holds a block that
\* validateBlockInput rejects.
C18_InvalidBlockRejected ==
    InvalidBlockSent =>
        /\ ev.call.status = 400
        /\ pagesFile = ev.prePagesFile


\* ------------------------------------------------------------------------
\* C20: rejected page writes
\* ------------------------------------------------------------------------

\* The last step was a request to write a page
PageWriteHandled == ev.h \in {"PostPage", "PutPageById", "DeletePageById"}

\* The stored page collection is what it was before the last step
PagesKept ==
    /\ Stored(pagesFile) = Stored(ev.prePagesFile)
    /\ ev.prePagesFile.kind = "array" => pagesFile = ev.prePagesFile

\* C20: a page write that is rejected writes nothing. A POST whose id is
\* stored already is answered 409, a PUT whose body id is not the path id is
\* answered 400, a PUT and a DELETE of an id that is not stored are answered
\* 404, and whenever a page write is answered with an error status the
\* stored pages are what they were before the request.
C20_RejectedWriteWritesNothing ==
    /\ (ev.h = "PostPage" /\ Trim(ev.call.page.title) # <<>>
            /\ ev.id \in Ids(Stored(ev.prePagesFile))) =>
          ev.call.status = 409 /\ PagesKept
    /\ (ev.h = "PutPageById" /\ ev.call.page.id # ev.id) =>
          ev.call.status = 400 /\ PagesKept
    /\ (ev.h = "PutPageById" /\ ev.call.page.id = ev.id
            /\ RouteBlocksError(ev.call.page.blocks) = "ok"
            /\ ev.id \notin Ids(Stored(ev.prePagesFile))) =>
          ev.call.status = 404 /\ PagesKept
    /\ (ev.h = "DeletePageById"
            /\ ev.id \notin Ids(Stored(ev.prePagesFile))) =>
          ev.call.status = 404 /\ PagesKept
    /\ (PageWriteHandled /\ ev.call.status >= 400) => PagesKept

\* A POST of a stored id was answered 409 after an earlier request had
\* written the collection
C20_Witness ==
    /\ ev.h = "PostPage" /\ ev.call.status = 409
    /\ ev.id \in Ids(Stored(pagesFile))
    /\ Stored(pagesFile) # StoredPages /\ Stored(pagesFile) # <<>>
    /\ pagesFile = ev.prePagesFile

\* A PUT with another id in the body than in the path was answered 400
C20_WitnessMismatch ==
    /\ ev.h = "PutPageById" /\ ev.call.status = 400
    /\ ev.call.page.id # ev.id /\ ev.id \in Ids(Stored(pagesFile))
    /\ RouteBlocksError(ev.call.page.blocks) = "ok"

\* A PUT of an id that is not stored was answered 404
C20_WitnessUnknownPut ==
    /\ ev.h = "PutPageById" /\ ev.call.status = 404
    /\ Stored(pagesFile) = StoredPages

\* A DELETE of an id that is not stored was answered 404
C20_WitnessUnknownDelete ==
    /\ ev.h = "DeletePageById" /\ ev.call.status = 404
    /\ Stored(pagesFile) = StoredPages


\* ------------------------------------------------------------------------
\* C19: validation before a block is applied
\* ------------------------------------------------------------------------

\* validateBlockInput accepts every block of the list
AllValid(bl) == \A i \in 1..Len(bl) : validateBlockInput(bl[i]) = "ok"

\* C19: every block of local state (the block list shown and the blocks of
\* every page), and every block of the payload of a persistence call, passes
\* validateBlockInput: a candidate that fails validation is neither applied
\* nor sent.
C19_OnlyValidBlocksApplied ==
    /\ AllValid(blocks)
    /\ \A p \in 1..Len(pages) : AllValid(pages[p].blocks)
    /\ \A c \in 1..Len(calls) :
          /\ AllValid(calls[c].page.blocks)
          /\ \A p \in 1..Len(calls[c].list) : AllValid(calls[c].list[p].blocks)

\* The edit form of an image block was submitted with a URL that is not
\* http(s) and dimensions that are right: nothing was applied or sent
C19_Witness ==
    /\ ev.h = "handleSave" /\ ev.outcome = "rejected" /\ blockError = "url"
    /\ blocks = ev.preBlocks /\ pages = ev.prePages
    /\ Len(calls) = ev.preCalls

\* The image modal was submitted with a URL that is not http(s): nothing was
\* applied or sent
C19_WitnessModal ==
    /\ ev.h = "handleConfirm" /\ ev.outcome = "rejected"
    /\ blocks = ev.preBlocks /\ Len(calls) = ev.preCalls

\* An image block was created from the image modal
C19_WitnessCreated ==
    /\ ev.h = "handleConfirmImageModal"
    /\ Len(blocks) = Len(ev.preBlocks) + 1 /\ Len(calls) = ev.preCalls + 1


\* ------------------------------------------------------------------------
\* C21: the aborted first fetch
\* ------------------------------------------------------------------------

\* The last step was the end, by result or by error, of a fetchPages whose
\* controller had been aborted
AbortedFetchEnded ==
    /\ ev.h = "resolve"
    /\ ev.call.handler = "fetchPages" /\ ev.call.aborted

\* C21: when the fetchPages effect was cleaned up before its fetch resolved,
\* neither the result nor the error of that fetch changes the page list, the
\* pages-loading flag or the pages-error state.
C21_AbortedFetchSetsNothing ==
    AbortedFetchEnded =>
        /\ pages = ev.prePages
        /\ pagesLoading = ev.prePagesLoading
        /\ pagesError = ev.prePagesError

\* The server had answered the aborted fetch with the stored pages, and the
\* page list is still empty and loading
C21_Witness ==
    /\ AbortedFetchEnded
    /\ ev.outcome = "ok" /\ ev.call.data # <<>>
    /\ pages = <<>> /\ pagesLoading /\ pagesError = Nil

\* The aborted fetch ended with an error that is not an AbortError
C21_WitnessError ==
    /\ AbortedFetchEnded /\ ev.outcome \in {"status", "network"}
    /\ pages = <<>> /\ pagesLoading /\ pagesError = Nil


\* ------------------------------------------------------------------------
\* C22: type and styles of a block agree
\* ------------------------------------------------------------------------

\* A text block has a variant of the four, an image block has a width and a
\* height that are numbers
TypeStylesAgree(b) ==
    /\ b.type \in {"text", "image"}
    /\ b.styles.k = "object"
    /\ b.type = "text" => VariantIncluded(b.styles.variant)
    /\ b.type = "image" => IsNumber(b.styles.width) /\ IsNumber(b.styles.height)

AllAgree(bl) == \A i \in 1..Len(bl) : TypeStylesAgree(bl[i])

\* C22: in every reachable state the type and the styles of every block
\* agree, in the block list shown, in the blocks of every page of the page
\* list and in every stored page: a text block has a variant in {h1, h2, h3,
\* paragraph}, an image block has a width and a height.
C22_TypeAndStylesAgree ==
    /\ AllAgree(blocks)
    /\ \A p \in 1..Len(pages) : AllAgree(pages[p].blocks)
    /\ \A p \in 1..Len(Stored(pagesFile)) : AllAgree(Stored(pagesFile)[p].blocks)

\* A slash command typed into a text block changed its variant
C22_Witness ==
    /\ ev.h = "handleInlineKeyDown" /\ ev.outcome = "variant"
    /\ \E i \in 1..Len(blocks) :
          /\ blocks[i].id = ev.id
          /\ blocks[i].styles # ev.preBlocks[i].styles
          /\ blocks[i].type = "text"

\* An image block was created through the image modal and is stored
C22_WitnessImage ==
    /\ ev.h = "resolve" /\ ev.outcome = "ok"
    /\ ev.call.handler = "handleConfirmImageModal"
    /\ \E p \in 1..Len(Stored(pagesFile)) :
          \E i \in 1..Len(Stored(pagesFile)[p].blocks) :
             /\ Stored(pagesFile)[p].blocks[i].id = ev.call.newId
             /\ Stored(pagesFile)[p].blocks[i].type = "image"

\* A failed edit was rolled back
C22_WitnessRollback ==
    /\ ev.h = "resolve" /\ ev.outcome = "status"
    /\ ev.call.handler = "handleInlineKeyDown"
    /\ blocks # ev.preBlocks


\* ------------------------------------------------------------------------
\* C23: ids are unique within their collection
\* ------------------------------------------------------------------------

\* The ids of the pages of the list and of the blocks of each page differ
UniqueIds(pl) ==
    /\ Distinct(pl)
    /\ \A p \in 1..Len(pl) : Distinct(pl[p].blocks)

\* C23: in every reachable state the page ids of the page list are pairwise
\* distinct and the block ids of each page are pairwise distinct, in local
\* state (the page list and the block list shown) and in storage.
C23_IdsUnique ==
    /\ UniqueIds(pages)
    /\ Distinct(blocks)
    /\ UniqueIds(Stored(pagesFile))


\* A page was created beside the stored ones and is stored with them
C23_Witness ==
    /\ ev.h = "resolve" /\ ev.outcome = "ok"
    /\ ev.call.handler = "handleCreatePage"
    /\ Len(pages) >= 3 /\ Len(Stored(pagesFile)) >= 3

\* A block was created in a page that holds blocks, and the call failed and
\* was rolled back
C23_WitnessRollback ==
    /\ ev.h = "resolve" /\ ev.outcome = "status"
    /\ ev.call.handler = "handleInsertBlockAfter"
    /\ Len(ev.preBlocks) >= 2 /\ blocks # ev.preBlocks

\* The pages were reordered and the order is stored
C23_WitnessReorder ==
    /\ ev.h = "resolve" /\ ev.outcome = "ok"
    /\ ev.call.handler = "handleReorderPages"
    /\ Len(Stored(pagesFile)) >= 2


\* ------------------------------------------------------------------------
\* C24: the error of a failed block mutation after the rollback
\* ------------------------------------------------------------------------

\* C24: once a failed block mutation has been rolled back and the effects
\* that the change of the page list triggers have run, the error state holds
\* the failure message that the catch block of updatePageBlocks set.
C24_ErrorStaysAfterRollback ==
    BlockCallFailed => (ev.errorSet # Nil /\ error = ev.errorSet)


\* ------------------------------------------------------------------------
\* C25: the selection of a block
\* ------------------------------------------------------------------------

\* The last step ended a drag: dragend, or a drop
DragEnded == ev.h \in {"handleDragEnd", "handleDrop"}

\* The last step was the success of the call that deleted the selected block
DeletedSelected ==
    /\ ev.h = "resolve" /\ ev.outcome = "ok"
    /\ ev.call.handler = "handleDeleteBlock"
    /\ ev.preSelectedBlock \in Ids(ev.call.previousBlocks)
    /\ ev.preSelectedBlock \notin Ids(ev.call.page.blocks)

\* C25: the selection is one value, Nil or the id of a block; it is Nil after
\* a click outside the blocks, after the deletion of the selected block and
\* after the end of a drag, and selecting a block while another is selected
\* leaves exactly the new one selected.
C25_SelectionTransitions ==
    /\ selectedBlockId \in BlockIds \cup {Nil}
    /\ (ev.h = "handleSelectBlock") => selectedBlockId = ev.id
    /\ (ev.h = "handleMainClick" /\ ev.outcome = "outside")
          => selectedBlockId = Nil
    /\ DeletedSelected => selectedBlockId = Nil
    /\ DragEnded => selectedBlockId = Nil


\* The selected block was deleted, and the selection is cleared
C25_WitnessDelete == DeletedSelected /\ selectedBlockId = Nil

\* A block was selected while another one was
C25_WitnessSelect ==
    /\ ev.h = "handleSelectBlock"
    /\ ev.preSelectedBlock \notin {Nil, ev.id}
    /\ selectedBlockId = ev.id

\* The transitions of the selection other than the end of a drag
C25_SelectionOutsideDrag ==
    /\ selectedBlockId \in BlockIds \cup {Nil}
    /\ (ev.h = "handleSelectBlock") => selectedBlockId = ev.id
    /\ (ev.h = "handleMainClick" /\ ev.outcome = "outside")
          => selectedBlockId = Nil
    /\ DeletedSelected => selectedBlockId = Nil
    /\ (ev.h = "handleDrop" /\ ev.outcome = "accepted") => selectedBlockId = Nil


\* ------------------------------------------------------------------------
\* C26: the title editor of the main area
\* ------------------------------------------------------------------------

\* The title typed into the editor is, once trimmed, not empty and not the
\* title of the selected page
TitleChanged ==
    /\ isEditingPageTitle /\ selectedPageId # Nil
    /\ Trim(editingPageTitle) # <<>>
    /\ Trim(editingPageTitle) # FindPage(pages, selectedPageId).title

\* Escape: the editor closes, the page list is kept and no call is issued
EscapeStep ==
    ev'.h = "handlePageTitleCancel" =>
        /\ ~isEditingPageTitle'
        /\ pages' = pages /\ calls' = calls /\ pagesFile' = pagesFile

\* Enter or blur with a changed title: the rename of the selected page to the
\* trimmed title is applied and its call dispatched, and the editor waits
SaveStep ==
    (ev'.h = "handlePageTitleSave" /\ TitleChanged) =>
        /\ Len(calls') = Len(calls) + 1
        /\ calls'[Len(calls')].handler = "handlePageTitleSave"
        /\ calls'[Len(calls')].op = "putPage"
        /\ calls'[Len(calls')].pageId = selectedPageId
        /\ calls'[Len(calls')].page.title = Trim(editingPageTitle)
        /\ FindPage(pages', selectedPageId).title = Trim(editingPageTitle)
        /\ isEditingPageTitle'

\* The call of the rename ends while the editor is open: on success the
\* editor closes; on failure it stays open with an error message and the
\* page list is the one the rename started from
RenameEndStep ==
    (/\ ev'.h = "resolve" /\ ev'.call.handler = "handlePageTitleSave"
     /\ isEditingPageTitle) =>
        IF ev'.outcome = "ok"
        THEN ~isEditingPageTitle' /\ pageTitleError' = Nil
        ELSE /\ isEditingPageTitle'
             /\ pageTitleError' # Nil
             /\ editingPageTitle' = editingPageTitle
             /\ ev'.call.alone => pages' = ev'.call.sPages

\* C26: in the title editor of the main area Escape returns to viewing
\* without a change of the page list and without a persistence call; Enter
\* or blur with a changed, non-empty trimmed title delegates to the rename
\* mutation, the editor returns to viewing when the rename succeeds and stays
\* in editing with an error message and the page list rolled back when it
\* fails.
C26_TitleEditor == [][EscapeStep /\ SaveStep /\ RenameEndStep]_vars

\* The rename started from the editor failed: the editor is open with the
\* message and the page list is rolled back
C26_Witness ==
    /\ ev.h = "resolve" /\ ev.outcome # "ok"
    /\ ev.call.handler = "handlePageTitleSave" /\ ev.call.alone
    /\ isEditingPageTitle /\ pageTitleError # Nil
    /\ pages = ev.call.sPages /\ pages # ev.prePages

\* The rename started from the editor succeeded and the editor closed
C26_WitnessSuccess ==
    /\ ev.h = "resolve" /\ ev.outcome = "ok"
    /\ ev.call.handler = "handlePageTitleSave"
    /\ ~isEditingPageTitle
    /\ FindPage(Stored(pagesFile), ev.call.pageId).title = ev.call.page.title

\* Escape was pressed in the editor
C26_WitnessEscape ==
    /\ ev.h = "handlePageTitleCancel" /\ ~isEditingPageTitle
    /\ pages = ev.prePages /\ Len(calls) = ev.preCalls


\* ------------------------------------------------------------------------
\* C27: the drag state after the end of a drag
\* ------------------------------------------------------------------------

DragIdle ==
    draggedBlockId = Nil /\ dragOverBlockId = Nil /\ dropPosition = Nil

C27_WitnessRejected ==
    /\ ev.h = "handleDrop" /\ ev.outcome = "rejected" /\ ev.id # Nil
    /\ DragIdle

\* The drag ended without a drop
C27_WitnessDragEnd ==
    /\ ev.h = "handleDragEnd" /\ DragIdle
    /\ calls = <<>> /\ blocks = ev.preBlocks


\* ------------------------------------------------------------------------
\* C29: Enter in a text block whose typed content differs from the stored one
\* ------------------------------------------------------------------------

\* The last step was the success of the insertion that followed the content
\* update of an Enter key press, the only operation of the user so far
EnterInsertSucceeded ==
    /\ ev.h = "resolve" /\ ev.outcome = "ok"
    /\ ev.call.handler = "handleInsertBlockAfter"
    /\ ev.call.after.blockId # Nil
    /\ opCount = 1

\* Block id holds the typed text and is immediately followed by the new
\* empty paragraph
TypedThenParagraph(bl, id, typed, newId) ==
    LET k == FindIndex(bl, id) + 1
    IN /\ k >= 1 /\ k + 1 <= Len(bl)
       /\ bl[k].content = Str(typed)
       /\ bl[k + 1] = Block(newId, "text", Str(<<>>), TextStyles("paragraph"))

\* C29: when Enter is pressed in a text block whose typed content differs
\* from its stored content and both the call of the content update and the
\* call of the insertion succeed, the block list, locally and in storage,
\* holds that block with the typed content immediately followed by the new
\* empty paragraph.
C29_EnterKeepsTypedContent ==
    EnterInsertSucceeded =>
        /\ TypedThenParagraph(blocks, ev.call.after.blockId,
                              ev.call.after.typed, ev.call.newId)
        /\ TypedThenParagraph(
              FindPage(Stored(pagesFile), ev.call.pageId).blocks,
              ev.call.after.blockId, ev.call.after.typed, ev.call.newId)


\* ------------------------------------------------------------------------
\* C28: mutations dispatched while a call is outstanding
\* ------------------------------------------------------------------------

\* Call i of a block mutation was dispatched while call 1 was outstanding:
\* the calls in flight are in the order of their dispatch
DispatchedBehind(i) ==
    /\ i \in 2..Len(calls)
    /\ calls[i].handler \in BlockHandlers

\* The block list and the page list the mutation of call c was computed
\* from are those of the local state at its dispatch
ComputedFromLatest(c) ==
    /\ c.previousBlocks = c.sBlocks
    /\ c.previousPages = c.sPages

\* C28: a block mutation dispatched while the call of an earlier mutation is
\* outstanding computes its new state from the latest optimistic local state,
\* the one that holds the earlier mutation's change.
C28_ComposesOnOptimisticState ==
    \A i \in 1..Len(calls) : DispatchedBehind(i) => ComputedFromLatest(calls[i])

\* A mutation was dispatched behind another one and computed from the state
\* that held the other's change
C28_WitnessComposed ==
    /\ Len(calls) = 2 /\ DispatchedBehind(2)
    /\ ComputedFromLatest(calls[2])
    /\ calls[1].handler \in BlockHandlers
    /\ calls[2].sBlocks # calls[1].sBlocks


\* ------------------------------------------------------------------------
\* C30: the deletion of a page
\* ------------------------------------------------------------------------

\* The last step was the failure of the call of a page deletion
DeletePageFailed ==
    /\ ev.h = "resolve" /\ ev.outcome # "ok"
    /\ ev.call.handler = "handleDeletePage"

\* C30: handleDeletePage removes the page from the page list before its call
\* resolves and, when the page was the selected one, selects the first of the
\* remaining pages, or none when no page remains; when the call fails, the
\* page list and the selected page are again those of before the deletion.
C30_DeletePageOptimisticAndRestored ==
    /\ (ev.h = "handleDeletePage") =>
          /\ pages = FilterOut(ev.prePages, ev.id)
          /\ ev.id \notin Ids(pages)
          /\ Len(calls) = ev.preCalls + 1
          /\ calls[Len(calls)].stage = "request"
          /\ selectedPageId =
                IF ev.preSel # ev.id THEN ev.preSel
                ELSE IF Len(pages) > 0 THEN pages[1].id ELSE Nil
    /\ DeletePageFailed =>
          /\ pages = ev.call.sPages
          /\ selectedPageId = ev.call.sSel

\* The deletion of the selected page failed: the page is back and selected
C30_Witness ==
    /\ DeletePageFailed
    /\ ev.call.sSel = ev.call.pageId
    /\ ev.preSel # ev.call.pageId
    /\ ev.call.pageId \in Ids(pages) /\ selectedPageId = ev.call.pageId

\* The selected page was deleted and the first remaining page is selected
C30_WitnessSelectsFirst ==
    /\ ev.h = "handleDeletePage" /\ ev.preSel = ev.id
    /\ Len(pages) > 0 /\ selectedPageId = pages[1].id

\* The only page was deleted and no page is selected
C30_WitnessNone ==
    /\ ev.h = "handleDeletePage" /\ ev.preSel = ev.id
    /\ pages = <<>> /\ selectedPageId = Nil


\* ------------------------------------------------------------------------
\* C31: the legacy migration happens once
\* ------------------------------------------------------------------------

\* C31: with a legacy block collection that stays non-empty and unchanged,
\* once a list-pages request has produced the imported page no later
\* list-pages request synthesizes an imported page again, whatever creations
\* and deletions of pages happen in between: at most one page is ever
\* synthesized.
C31_MigrationIsOneTime == Len(ev.ids) <= 1

\* ------------------------------------------------------------------------
\* Properties of the stored collections (SpecStore)
\* ------------------------------------------------------------------------

\* The file a read started from, and the file it left
ReadOf(h) == IF h = "readPages" THEN ev.prePagesFile ELSE ev.preBlocksFile
LeftBy(h) == IF h = "readPages" THEN pagesFile ELSE blocksFile

\* The read returned [] and left the collection stored as []
RecoveredEmpty(h) ==
    /\ ev.outcome = "returned"
    /\ ev.call.data = <<>>
    /\ LeftBy(h) = ArrayFile(<<>>)

\* C32: a read of a stored collection (pages or legacy blocks) whose file is
\* absent creates it as [] and returns []; a read of stored content that is
\* not an array, be it another JSON value or text that is no JSON, rewrites
\* it to [] and returns [] instead of failing.
C32_ReadRecovers ==
    \A h \in {"readPages", "readBlocks"} :
        (ev.h = h /\ ReadOf(h).kind \in {"absent", "value", "text"})
            => RecoveredEmpty(h)

\* ------------------------------------------------------------------------
\* Properties of the image modal's insertion context (SpecBlocks)
\* ------------------------------------------------------------------------

\* bl2 is bl with one image block, named newId, put in at position k + 1
ImageInsertedAt(bl, bl2, k, newId) ==
    /\ Len(bl2) = Len(bl) + 1
    /\ bl2[k + 1].id = newId /\ bl2[k + 1].type = "image"
    /\ \A i \in 1..Len(bl) : bl[i] = bl2[IF i <= k THEN i ELSE i + 1]

\* The position the context names in bl: behind block X, or the end
ContextPosition(bl, context) ==
    IF context.blockId = Nil THEN Len(bl) ELSE FindIndex(bl, context.blockId) + 1

\* The step in which 'image' is chosen in the block menu
ImageChosen == ev'.h = "handleSelectBlockType:image"

\* The step in which the image modal is confirmed, for a context whose block
\* is displayed or that names the document's end
ImageConfirmed ==
    /\ ev'.h = "handleConfirmImageModal"
    /\ imageModalContext.blockId \in Ids(blocks) \cup {Nil}

\* C33: choosing 'image' in the block menu closes the menu, resets the
\* menu's context and opens the image modal with the insertion context the
\* menu had; confirming the modal inserts the image block at the position
\* the modal's context names, behind block X or at the document's end.
C33_ImageContextPreserved ==
    [][/\ ImageChosen =>
             /\ ~isBlockMenuOpen' /\ blockMenuContext' = BottomContext
             /\ isImageModalOpen' /\ imageModalContext' = blockMenuContext
       /\ ImageConfirmed =>
             /\ ImageInsertedAt(blocks, blocks',
                                ContextPosition(blocks, imageModalContext),
                                ev'.id2)
             /\ ~isImageModalOpen' /\ ~isBlockMenuOpen']_vars

\* The image block was put in behind a block that is not the last one
C33_Witness ==
    /\ ev.h = "handleConfirmImageModal" /\ ev.id # Nil
    /\ \E i \in 1..(Len(blocks) - 2) :
          /\ blocks[i].id = ev.id
          /\ blocks[i + 1].id = ev.id2 /\ blocks[i + 1].type = "image"

\* 'image' was chosen in the menu opened on a block: the modal is open for
\* the position behind that block
C33_WitnessMenu ==
    /\ ev.h = "handleSelectBlockType:image" /\ ev.id # Nil
    /\ isImageModalOpen /\ ~isBlockMenuOpen
    /\ imageModalContext = Context(ev.id, "after")

\* ------------------------------------------------------------------------
\* Properties of Home with calls that all succeed in order (SpecInOrder)
\* ------------------------------------------------------------------------

\* C34: when every persistence call succeeds and the server handles the
\* calls in dispatch order, then whenever no call is in flight the local
\* page list (ids, order, titles, blocks) equals the stored page list.
C34_QuiescentLocalEqualsStored == calls = <<>> => pages = Stored(pagesFile)

\* ------------------------------------------------------------------------
\* Properties of concurrent page writes (SpecConcurrent)
\* ------------------------------------------------------------------------

\* A single-page replace has written storage in the last step
ReplaceWritten ==
    ev.h = "writePages" /\ ev.call.op = "putPage" /\ ev.call.status = 200

\* Every page but the one named id is stored in after as it was in before
OtherPagesUnchanged(before, after, id) ==
    /\ \A i \in 1..Len(before) :
          before[i].id # id => \E j \in 1..Len(after) : after[j] = before[i]
    /\ \A j \in 1..Len(after) :
          after[j].id # id => \E i \in 1..Len(before) : before[i] = after[j]

\* C35: a successful single-page replace changes only the addressed page in
\* storage, every other stored page is as it was before the write, also
\* when two page-write requests are handled concurrently with their read
\* and write steps interleaved.
C35_ReplaceTouchesOnePage ==
    ReplaceWritten =>
        OtherPagesUnchanged(Stored(ev.prePagesFile), Stored(pagesFile),
                            ev.call.pageId)

\* ------------------------------------------------------------------------
\* Properties of the selection (Spec)
\* ------------------------------------------------------------------------

\* C36: in every reachable state, once effects have run, the selected page
\* id is null or the id of a page of the local page list, whatever page
\* creations, renames, deletions, block mutations and rollbacks happened.
C36_SelectedPageInList == selectedPageId = Nil \/ selectedPageId \in Ids(pages)

\* C37: in every reachable state the selected block id is null or the id of
\* a block of the displayed block list, in particular after the switch to
\* another page, after the deletion of a block and after a rollback took
\* out an optimistically inserted block.
C37_SelectedBlockDisplayed ==
    selectedBlockId = Nil \/ selectedBlockId \in Ids(blocks)

\* The block list the load-blocks effect shows for the selected page
BlocksOfSelected ==
    IF selectedPageId \in Ids(pages) THEN FindPage(pages, selectedPageId).blocks
    ELSE <<>>

\* A mutation response was applied, or its mutation rolled back, in the
\* last step
MutationResolved == ev.h = "resolve" /\ ev.call.handler # "fetchPages"

\* C38: after any mutation response is applied or rolled back, also one
\* that resolves after the user went to another page, and once effects have
\* run, the displayed block list equals the block list of the selected page
\* in the local page list.
C38_DisplayedBlocksOfSelectedPage ==
    (MutationResolved /\ selectedPageId # Nil) => blocks = BlocksOfSelected

\* ------------------------------------------------------------------------
\* Properties of the image modal's dimension detection (SpecDetect)
\* ------------------------------------------------------------------------

\* A detection resolves in this step with the size of its image
ResultArrives == ev'.h = "loadImageDimensions:resolved"

\* The result belongs to the latest request, and the open modal still holds
\* the URL of that request
ResultIsCurrent ==
    /\ isImageModalOpen
    /\ ev'.id = ToString(imageModal.requestIdRef)
    /\ ev'.title = imageModal.url

\* width, height and the preview stay as they are
ResultDiscarded ==
    /\ imageModal'.width = imageModal.width
    /\ imageModal'.height = imageModal.height
    /\ imageModal'.showPreview = imageModal.showPreview

\* C39: the result of a dimension detection is applied to width, height and
\* the preview only if it belongs to the latest request and the modal's URL
\* is still the URL of that request; a result for a URL that was changed,
\* cleared or made invalid since, or that arrives after the modal was
\* closed, is discarded.
C39_StaleDetectionDiscarded ==
    [][(ResultArrives /\ ~ResultIsCurrent) => ResultDiscarded]_vars

\* ------------------------------------------------------------------------
\* Properties of the sidebar's page reorder (Spec)
\* ------------------------------------------------------------------------

\* The pages of pl without the page named id, in their order
RECURSIVE WithoutPage(_, _)
WithoutPage(pl, id) ==
    IF pl = <<>> THEN <<>>
    ELSE IF Head(pl).id = id THEN WithoutPage(Tail(pl), id)
    ELSE <<Head(pl)>> \o WithoutPage(Tail(pl), id)

\* The sidebar's drop handler ran in the last step
SidebarDropped == ev.h = "Sidebar.handleDrop"

\* A drop with no drag, onto the dragged page itself, or with an id that is
\* not in the page list
DropIgnored ==
    \/ ev.id = Nil
    \/ ev.id = ev.id2
    \/ ev.id \notin Ids(ev.prePages)
    \/ ev.id2 \notin Ids(ev.prePages)

\* The list the page-reorder mutation was called with: the body of the call
\* it dispatched
ReorderArgument == calls[Len(calls)].list

\* C40: a drop of the dragged page D on the target page T passes to the
\* page-reorder mutation a permutation of the page list in which D holds
\* the index T had and the other pages keep their relative order; a drop
\* with no drag, onto D itself or with a missing id issues no mutation; in
\* both cases the drag state is cleared.
C40_SidebarDropReorders ==
    SidebarDropped =>
        /\ draggedPageId = Nil /\ dragOverPageId = Nil
        /\ IF DropIgnored
           THEN Len(calls) = ev.preCalls /\ pages = ev.prePages
           ELSE /\ Len(calls) = ev.preCalls + 1
                /\ calls[Len(calls)].op = "putPages"
                /\ ReorderArgument = JsonPages(pages)
                /\ Len(pages) = Len(ev.prePages)
                /\ pages[FindIndex(ev.prePages, ev.id2) + 1] =
                      FindPage(ev.prePages, ev.id)
                /\ WithoutPage(pages, ev.id) = WithoutPage(ev.prePages, ev.id)

\* A page was dropped on a page further down, and the reorder dispatched
C40_Witness ==
    /\ SidebarDropped /\ ~DropIgnored
    /\ FindIndex(ev.prePages, ev.id) < FindIndex(ev.prePages, ev.id2)
    /\ pages # ev.prePages
    /\ calls[Len(calls)].handler = "handleReorderPages"

\* A page was dropped on a page further up
C40_WitnessUp ==
    /\ SidebarDropped /\ ~DropIgnored
    /\ FindIndex(ev.prePages, ev.id) > FindIndex(ev.prePages, ev.id2)
    /\ pages # ev.prePages

\* Something was dropped on a page while no page was dragged
C40_WitnessNoDrag ==
    SidebarDropped /\ ev.id = Nil /\ Len(calls) = ev.preCalls

\* The dragged page was dropped on itself
C40_WitnessSelf ==
    SidebarDropped /\ ev.id # Nil /\ ev.id = ev.id2

\* The dragged page had left the page list when it was dropped
C40_WitnessMissing ==
    SidebarDropped /\ ev.id # Nil /\ ev.id \notin Ids(ev.prePages)

====
